---- MODULE Spec2Model ----
(***************************************************************************)
(* jalsp: LR table generation (SLR / LALR(1) / LR(1)) with operator        *)
(* precedence, the shift-reduce parse driver and the sticky lexer engine.  *)
(*                                                                         *)
(* Symbols are modelled by their names (strings); a symbol is a terminal   *)
(* iff its name is in the token set of the grammar.  JavaScript Sets are   *)
(* insertion ordered, so they are modelled as duplicate-free sequences.    *)
(* Array indices are 0-based in the program; state ids, production ids and *)
(* symbol ids keep their 0-based values, TLA+ sequences are 1-based.       *)
(***************************************************************************)
EXTENDS Integers, Sequences, FiniteSets, TLC

VARIABLES
  grammar,      \* GrammarDefinition handed to the generator constructor
  ctor,         \* the generator class the caller constructs
  gpc,          \* control position inside the generator constructor
  attempt,      \* mode of the SLRGenerator / LALRGenerator being run
  auto,         \* TRUE while LRGenerator.computeAuto drives the attempts
  errors,       \* computeAuto: modes whose attempt threw, in order
  states,       \* computeSLR / computeLR1: local `states`
  gi,           \* computeSLR / computeLR1: loop index i
  gk,           \* position of the for-loop over the items of states[i]
  genAction,    \* the running sub-generator's this.action
  genGoto,      \* the running sub-generator's this.goto
  action,       \* ParsedGrammar.action (LRGenerator.action / Parser.action)
  goto,         \* ParsedGrammar.goto
  statesTable,  \* LRGenerator.statesTable
  builtBy,      \* mode whose tables were copied by computeMode ("" if none)
  cellLog,      \* history: every write to an ACTION cell that was not empty
  stream,       \* Parser.stream: [tokens, pos] (a WrappedTokenArray)
  context,      \* Parser.context
  a,            \* Parser.a: current lookahead token
  an,           \* Parser.an
  stack,        \* Parser.stack
  accepted,     \* Parser.accepted
  inError,      \* Parser.inError
  ppc,          \* control position of Parser.parse
  result,       \* value returned by the last parse call that returned
  calls,        \* history: handler invocations of the current parse call
  nparse,       \* history: number of parse calls started on this Parser
  trace,        \* history: shifts / reduces / token reads of the current call
  top,          \* parse(): local `top`
  raised,       \* the error the current parse call threw (NoError if none)
  input,        \* history: the tokens and context the caller passed to parse
  earlier,      \* history: how the earlier parse calls on this Parser ended
  lexer,        \* the LexerOptions the Lexer was constructed from
  str,          \* Lexer.str
  pos,          \* Lexer.pos
  lexLog,       \* history: the nextToken calls made since the last reset
  builder,      \* the LRGrammarBuilder the caller works on
  lastCall,     \* history: the last call made on the builder
  ncalls,       \* history: number of calls made on the builder
  scope,        \* where the Parser's functions find their free variables
  original,     \* history: the Parser that was serialized and what it returned
  work          \* convertToBnf / convertSingle: the locals of a lowering under way

genVars == <<grammar, ctor, gpc, attempt, auto, errors, states, gi, gk,
             genAction, genGoto, action, goto, statesTable, builtBy, cellLog>>
parseVars == <<stream, context, a, an, stack, accepted, inError, ppc, result,
               calls, nparse, trace, top, raised, input, earlier>>
lexVars == <<lexer, str, pos, lexLog>>
buildVars == <<builder, lastCall, ncalls>>
serialVars == <<scope, original>>
lowerVars == <<work>>
vars == <<genVars, parseVars, lexVars, buildVars, serialVars, lowerVars>>

-----------------------------------------------------------------------------
(* Generic helpers *)

Undefined == -1

Contains(seq, x) == \E i \in 1..Len(seq) : seq[i] = x

IndexOf(seq, x) ==
  IF Contains(seq, x) THEN (CHOOSE i \in 1..Len(seq) :
                              seq[i] = x /\ \A j \in 1..(i-1) : seq[j] # x) - 1
  ELSE -1

\* Set.prototype.add on an insertion-ordered set
SetAdd(seq, x) == IF Contains(seq, x) THEN seq ELSE Append(seq, x)

RECURSIVE AddSet(_, _)
AddSet(seq, s) ==
  IF s = <<>> THEN seq ELSE AddSet(SetAdd(seq, Head(s)), Tail(s))

Without(seq, x) == SelectSeq(seq, LAMBDA e : e # x)

Slice(seq, from, to) == \* Array.prototype.slice(from, to), 0-based, to exclusive
  IF to <= from THEN <<>> ELSE SubSeq(seq, from + 1, to)

Get(f, k, dflt) == IF k \in DOMAIN f THEN f[k] ELSE dflt

\* {} : an object / sparse array without entries
EmptyMap == [x \in {} |-> 0]

\* obj[k] = v on an object / sparse array
Put(f, k, v) == [x \in DOMAIN f \cup {k} |-> IF x = k THEN v ELSE f[x]]

\* F(e) with e evaluated once, before F is applied (a local of the code that
\* is assigned once and then read)
Strict(F(_), e) == CHOOSE r \in {F(x) : x \in {e}} : TRUE

-----------------------------------------------------------------------------
(* utils-obj.ts / utils.ts constants *)

eps == "eps"
EOF_INDEX == 0
DEFAULT_EOF_TOKEN == "<<EOF>>"

-----------------------------------------------------------------------------
(* LR0Generator constructor: symbol table *)

EofName(g) == IF g.eofToken = "" THEN DEFAULT_EOF_TOKEN ELSE g.eofToken

Tokens(g) == g.tokens \cup {EofName(g)}

\* `undefined` where a symbol is expected (GItem.symbolAhead past the end)
NoSymbol == ""

isNonTerminal(g, x) == x # NoSymbol /\ x # eps /\ x \notin Tokens(g)
isTerminal(g, x) == x # NoSymbol /\ (x = eps \/ x \in Tokens(g))

RECURSIVE ProductionSymbols(_, _, _)
ProductionSymbols(g, k, syms) ==
  IF k > Len(g.productions) THEN syms
  ELSE LET p == g.productions[k]
       IN ProductionSymbols(g, k + 1, AddSet(SetAdd(syms, p.name), p.expr))

Symbols(g) == ProductionSymbols(g, 1, <<EofName(g)>>)

symbolsTable(g, name) == IndexOf(Symbols(g), name)

Terminals(g) == SelectSeq(Symbols(g), LAMBDA x : x \in Tokens(g))
NonTerminals(g) == SelectSeq(Symbols(g), LAMBDA x : x \notin Tokens(g))

Productions(g) == [k \in 1..Len(g.productions) |->
                     [head |-> g.productions[k].name, body |-> g.productions[k].expr]]

\* this.actions[pid]: the handler bound to production pid (Undefined if none)
GenActions(g) == [k \in 1..Len(g.productions) |->
                    IF g.productions[k].action + 1 \in 1..Len(g.actions)
                    THEN g.actions[g.productions[k].action + 1] ELSE Undefined]

StartSymbol(g) ==
  IF g.startSymbol # "" THEN g.startSymbol ELSE g.productions[1].name

-----------------------------------------------------------------------------
(* FIRST / FOLLOW: LR0Generator.computeFirstAndFollow, utils.computeFirst *)

EmptySets(g) == [x \in {Symbols(g)[k] : k \in 1..Len(Symbols(g))} |-> <<>>]

\* the for-loop over rhs in the FIRST pass, from 1-based position i
RECURSIVE FirstOfRhs(_, _, _, _)
FirstOfRhs(first, lhs, rhs, i) ==
  IF i > Len(rhs)
  THEN IF Contains(first[rhs[Len(rhs)]], eps)
       THEN Put(first, lhs, SetAdd(first[lhs], eps))
       ELSE first
  ELSE LET e == rhs[i]
           f1 == Put(first, lhs, AddSet(first[lhs], Without(first[e], eps)))
       IN Strict(LAMBDA f : IF ~Contains(f[e], eps) THEN f
                            ELSE FirstOfRhs(f, lhs, rhs, i + 1), f1)

RECURSIVE FirstPass(_, _, _)
FirstPass(g, first, k) ==
  IF k > Len(g.productions) THEN first
  ELSE LET p == Productions(g)[k]
           f1 == IF p.body = <<>>
                 THEN Put(first, p.head, SetAdd(first[p.head], eps))
                 ELSE FirstOfRhs(first, p.head, p.body, 1)
       IN Strict(LAMBDA f : FirstPass(g, f, k + 1), f1)

RECURSIVE FirstFix(_, _)
FirstFix(g, first) ==
  Strict(LAMBDA f1 : IF f1 = first THEN first ELSE FirstFix(g, f1),
         FirstPass(g, first, 1))

First(g) ==
  FirstFix(g, [x \in DOMAIN EmptySets(g) |->
                 IF x \in Tokens(g) THEN <<x>> ELSE <<>>])

\* utils.computeFirst(list, first)
RECURSIVE ComputeFirstLoop(_, _, _, _)
ComputeFirstLoop(list, first, i, ret) ==
  IF i > Len(list) THEN ret
  ELSE LET f == first[list[i]]
           r1 == AddSet(ret, Without(f, eps))
       IN IF ~Contains(f, eps) THEN r1 ELSE ComputeFirstLoop(list, first, i + 1, r1)

computeFirst(list, first) ==
  LET ret == ComputeFirstLoop(list, first, 1, <<>>)
  IN IF Len(list) > 0 /\ Len(ret) = 0 THEN <<eps>> ELSE ret

\* the for-loop over rhs in the FOLLOW pass, from 1-based position i
RECURSIVE FollowOfRhs(_, _, _, _, _, _)
FollowOfRhs(g, first, follow, lhs, rhs, i) ==
  IF i > Len(rhs) THEN follow
  ELSE LET x == rhs[i]
           f1 == IF ~isNonTerminal(g, x) THEN follow
                 ELSE IF i < Len(rhs)
                 THEN LET f == computeFirst(SubSeq(rhs, i + 1, Len(rhs)), first)
                          epsfound == Contains(f, eps)
                          f2 == Put(follow, x, AddSet(follow[x], Without(f, eps)))
                      IN IF epsfound
                         THEN Put(f2, x, AddSet(f2[x], f2[lhs]))
                         ELSE f2
                 ELSE Put(follow, x, AddSet(follow[x], follow[lhs]))
       IN Strict(LAMBDA f : FollowOfRhs(g, first, f, lhs, rhs, i + 1), f1)

RECURSIVE FollowPass(_, _, _, _)
FollowPass(g, first, follow, k) ==
  IF k > Len(g.productions) THEN follow
  ELSE LET p == Productions(g)[k]
       IN Strict(LAMBDA f : FollowPass(g, first, f, k + 1),
                 FollowOfRhs(g, first, follow, p.head, p.body, 1))

RECURSIVE FollowFix(_, _, _)
FollowFix(g, first, follow) ==
  Strict(LAMBDA f1 : IF f1 = follow THEN follow ELSE FollowFix(g, first, f1),
         FollowPass(g, first, follow, 1))

Follow(g) ==
  Strict(LAMBDA first : FollowFix(g, first,
                                  Put(EmptySets(g), StartSymbol(g), <<EofName(g)>>)),
         First(g))

-----------------------------------------------------------------------------
(* Items and item sets: utils-obj.ts (Production, GItem, LR1Item),          *)
(* utils.ts (closure, closureLR1, findState), LR0Generator.gotoLR0,         *)
(* LALRGenerator.gotoLR1.  An item is [p, dot, la]: p the production id     *)
(* (-1 for the augmenting production), la the LR(1) lookahead (NoSymbol in  *)
(* SLR mode, where states hold bare GItems).                                *)

IncrementNames == <<"__GLOBAL", "__GLOBAL_0", "__GLOBAL_1", "__GLOBAL_2">>

\* LR0Generator.determineS1: the first name of the increment chain that is free
S1(g) ==
  LET free == {k \in 1..Len(IncrementNames) :
                 /\ ~Contains(NonTerminals(g), IncrementNames[k])
                 /\ IncrementNames[k] \notin Tokens(g)}
  IN IncrementNames[CHOOSE k \in free : \A j \in free : k <= j]

StartProductionId == -1

ProdOf(g, p) ==
  IF p = StartProductionId THEN [head |-> S1(g), body |-> <<StartSymbol(g)>>]
  ELSE Productions(g)[p + 1]

Item(p, dot, la) == [p |-> p, dot |-> dot, la |-> la]

isAtEnd(g, item) == item.dot >= Len(ProdOf(g, item.p).body)

symbolAhead(g, item) ==
  IF isAtEnd(g, item) THEN NoSymbol ELSE ProdOf(g, item.p).body[item.dot + 1]

tail(g, item) ==
  LET body == ProdOf(g, item.p).body
  IN Slice(body, item.dot + 1, Len(body))

nextItem(item) == [item EXCEPT !.dot = @ + 1]

\* GItem.equals: structural equality of the productions, same dot
GItemEquals(g, x, y) == ProdOf(g, x.p) = ProdOf(g, y.p) /\ x.dot = y.dot

\* LR1Item.equals
LR1ItemEquals(g, x, y) == GItemEquals(g, x, y) /\ x.la = y.la

getProductionsByHead(g, head) ==
  SelectSeq([k \in 1..Len(g.productions) |-> k - 1],
            LAMBDA p : Productions(g)[p + 1].head = head)

RECURSIVE PushNew(_, _, _)
PushNew(g, stk, items) ==
  IF items = <<>> THEN stk
  ELSE LET ni == Head(items)
           found == \E k \in 1..Len(stk) : LR1ItemEquals(g, ni, stk[k])
       IN PushNew(g, IF found THEN stk ELSE Append(stk, ni), Tail(items))

RECURSIVE ClosureLoop(_, _, _)
ClosureLoop(g, stk, p) ==
  IF p > Len(stk) THEN stk
  ELSE LET B == symbolAhead(g, stk[p])
           prods == getProductionsByHead(g, B)
           new == [k \in 1..Len(prods) |-> Item(prods[k], 0, NoSymbol)]
       IN ClosureLoop(g, IF isNonTerminal(g, B) THEN PushNew(g, stk, new) ELSE stk,
                      p + 1)

closure(g, items) == ClosureLoop(g, items, 1)

\* the items closureLR1 derives from stack[p] for the productions `prods`
RECURSIVE LR1NewItems(_, _, _, _)
LR1NewItems(g, item, prods, first) ==
  IF prods = <<>> THEN <<>>
  ELSE LET suffix == Append(tail(g, item), item.la)
           f == SelectSeq(computeFirst(suffix, first), LAMBDA x : isTerminal(g, x))
       IN [k \in 1..Len(f) |-> Item(Head(prods), 0, f[k])]
            \o LR1NewItems(g, item, Tail(prods), first)

RECURSIVE ClosureLR1Loop(_, _, _, _)
ClosureLR1Loop(g, stk, p, first) ==
  IF p > Len(stk) THEN stk
  ELSE LET B == symbolAhead(g, stk[p])
           new == LR1NewItems(g, stk[p], getProductionsByHead(g, B), first)
       IN ClosureLR1Loop(g, IF isNonTerminal(g, B) THEN PushNew(g, stk, new) ELSE stk,
                         p + 1, first)

closureLR1(g, items) == ClosureLR1Loop(g, items, 1, First(g))

Advance(g, I, x) ==
  LET sel == SelectSeq(I, LAMBDA it : ~isAtEnd(g, it) /\ symbolAhead(g, it) = x)
  IN [k \in 1..Len(sel) |-> nextItem(sel[k])]

gotoLR0(g, I, x) == closure(g, Advance(g, I, x))

gotoLR1(g, I, x) == closureLR1(g, Advance(g, I, x))

\* utils.findState: 0-based index of the first state that matches, else -1
StateMatches(g, s, state, lr1ItemSimilar) ==
  /\ Len(s) = Len(state)
  /\ \A k \in 1..Len(s) : \E m \in 1..Len(state) :
       IF lr1ItemSimilar THEN GItemEquals(g, state[m], s[k])
       ELSE LR1ItemEquals(g, state[m], s[k])

findState(g, list, state, lr1ItemSimilar) ==
  LET hits == {k \in 1..Len(list) : StateMatches(g, list[k], state, lr1ItemSimilar)}
  IN IF hits = {} THEN -1 ELSE (CHOOSE k \in hits : \A j \in hits : k <= j) - 1

-----------------------------------------------------------------------------
(* ACTION cells: LR0Generator.tryAddAction / resolveConflict,               *)
(* utils.defaultOperatorHandler.  An AutomatonActionRecord [kind, args] is  *)
(* the record [t |-> kind, a |-> args]; a thrown ParserError is modelled as *)
(* the pseudo record Throw(kind).                                           *)

Shift(j) == [t |-> "shift", a |-> <<j>>]
Reduce(h, len, pid) == [t |-> "reduce", a |-> <<h, len, pid>>]
Accept == [t |-> "accept", a |-> <<>>]
NonAssocMessage == -2
ErrorAction == [t |-> "error", a |-> <<NonAssocMessage>>]
None == [t |-> "none", a |-> <<>>]
Throw(kind) == [t |-> "throw", a |-> <<kind>>]

ReduceReduceConflict == 1
ShiftShiftConflict == 2
ShiftReduceConflict == 3
InvalidProductionIndex == 4

\* rec[1][0] (undefined for an accept record)
Arg0(rec) == IF rec.a = <<>> THEN Undefined ELSE rec.a[1]

\* this.operators: Map built from grammar.operators, later entries win
HasOperator(g, name) == \E k \in 1..Len(g.operators) : g.operators[k].name = name

OperatorOf(g, name) ==
  LET ks == {k \in 1..Len(g.operators) : g.operators[k].name = name}
  IN g.operators[CHOOSE k \in ks : \A j \in ks : j <= k]

NoOperator == [name |-> "", assoc |-> "", prior |-> Undefined]

\* utils.defaultOperatorHandler(prod, oprMap)
defaultOperatorHandler(g, prod) ==
  LET ks == {k \in 1..Len(prod.body) : HasOperator(g, prod.body[k])}
  IN IF ks = {} THEN NoOperator
     ELSE OperatorOf(g, prod.body[CHOOSE k \in ks : \A j \in ks : k <= j])

\* a variant that settles every unresolved shift/reduce conflict by shifting
ResolveShiftReduceDefaultShift(g, shiftAction, reduceAction, la) ==
  LET prodIndex == reduceAction.a[3]
      policy == g.conflictPolicy.shiftReduce
  IN IF prodIndex < 0 \/ prodIndex >= Len(g.productions)
     THEN Throw(InvalidProductionIndex)
     ELSE IF HasOperator(g, la)
     THEN LET aPrior == OperatorOf(g, la).prior
              op == defaultOperatorHandler(g, ProdOf(g, prodIndex))
          IN IF op = NoOperator THEN shiftAction
             ELSE IF aPrior = op.prior
             THEN CASE op.assoc = "left" -> reduceAction
                    [] op.assoc = "right" -> shiftAction
                    [] policy = "reduce" -> reduceAction
                    [] policy = "shift" -> shiftAction
                    [] OTHER -> ErrorAction
             ELSE IF aPrior > op.prior THEN shiftAction ELSE reduceAction
     ELSE CASE policy = "reduce" -> reduceAction
            [] OTHER -> shiftAction

\* the tail of resolveConflict, once shiftAction and reduceAction are told apart
ResolveShiftReduce(g, shiftAction, reduceAction, la) ==
  LET prodIndex == reduceAction.a[3]
      policy == g.conflictPolicy.shiftReduce
  IN IF prodIndex < 0 \/ prodIndex >= Len(g.productions)
     THEN Throw(InvalidProductionIndex)
     ELSE IF HasOperator(g, la)
     THEN LET aPrior == OperatorOf(g, la).prior
              op == defaultOperatorHandler(g, ProdOf(g, prodIndex))
          IN IF op = NoOperator THEN Throw(ShiftReduceConflict)
             ELSE IF aPrior = op.prior
             THEN CASE op.assoc = "left" -> reduceAction
                    [] op.assoc = "right" -> shiftAction
                    [] policy = "reduce" -> reduceAction
                    [] policy = "shift" -> shiftAction
                    [] OTHER -> ErrorAction
             ELSE IF aPrior > op.prior THEN shiftAction ELSE reduceAction
     ELSE CASE policy = "reduce" -> reduceAction
            [] policy = "shift" -> shiftAction
            [] OTHER -> Throw(ShiftReduceConflict)

\* a variant in which the first of two different reduces stays in the cell
resolveConflictFirstReduce(g, currentAction, newAction, la) ==
  IF currentAction.t = "reduce"
  THEN IF newAction.t = "reduce" THEN currentAction
       ELSE ResolveShiftReduce(g, newAction, currentAction, la)
  ELSE IF newAction.t = "shift"
       THEN IF Arg0(newAction) # Arg0(currentAction)
            THEN Throw(ShiftShiftConflict)
            ELSE currentAction
       ELSE ResolveShiftReduce(g, currentAction, newAction, la)

resolveConflict(g, currentAction, newAction, la) ==
  IF currentAction.t = "reduce"
  THEN IF newAction.t = "reduce"
       THEN IF currentAction.a # newAction.a
            THEN Throw(ReduceReduceConflict)
            ELSE currentAction
       ELSE ResolveShiftReduce(g, newAction, currentAction, la)
  ELSE IF newAction.t = "shift"
       THEN IF Arg0(newAction) # Arg0(currentAction)
            THEN Throw(ShiftShiftConflict)
            ELSE currentAction
       ELSE ResolveShiftReduce(g, currentAction, newAction, la)

\* One tryAddAction call on row `st` of the table.  `out` threads the table,
\* the history of writes to non-empty cells, and whether an error was thrown.
\* a row of a table: one (possibly empty) cell per symbol id
EmptyRow(g, empty) == [n \in 0..(Len(Symbols(g)) - 1) |-> empty]

Cell(act, st, n) == IF st \in DOMAIN act THEN act[st][n] ELSE None

SetCell(act, st, n, rec) == Put(act, st, Put(act[st], n, rec))

LogEntry(st, n, cur, new, res, via) ==
  [st |-> st, an |-> n, cur |-> cur, new |-> new, res |-> res, via |-> via]

\* a variant in which the last action generated for a cell wins
tryAddActionOverwrite(g, out, st, lookahead, newAction) ==
  IF out.thrown THEN out
  ELSE LET idx == symbolsTable(g, lookahead)
           n == IF idx = -1 THEN 0 ELSE idx
           cur == Cell(out.act, st, n)
       IN [out EXCEPT !.act = SetCell(out.act, st, n, newAction),
                      !.log = IF cur = None THEN @
                              ELSE Append(@, LogEntry(st, n, cur, newAction, newAction,
                                                      "direct"))]

tryAddAction(g, out, st, lookahead, newAction) ==
  IF out.thrown THEN out
  ELSE LET idx == symbolsTable(g, lookahead)
           n == IF idx = -1 THEN 0 ELSE idx
           cur == Cell(out.act, st, n)
       IN IF cur = None
          THEN [out EXCEPT !.act = SetCell(out.act, st, n, newAction)]
          ELSE LET res == resolveConflict(g, cur, newAction, lookahead)
                   log == Append(out.log, LogEntry(st, n, cur, newAction, res, "resolve"))
               IN IF res.t = "throw"
                  THEN [out EXCEPT !.log = log, !.thrown = TRUE]
                  ELSE [act |-> SetCell(out.act, st, n, res), log |-> log,
                        thrown |-> FALSE]

\* act[EOF_INDEX] = ['accept', []]: the cell is assigned, whatever it holds
WriteAccept(out, st) ==
  LET cur == Cell(out.act, st, EOF_INDEX)
  IN [out EXCEPT !.act = SetCell(out.act, st, EOF_INDEX, Accept),
                 !.log = IF cur = None THEN @
                         ELSE Append(@, LogEntry(st, EOF_INDEX, cur, Accept, Accept,
                                                 "direct"))]

-----------------------------------------------------------------------------
(* Table construction: SLRGenerator.computeSLR, LALRGenerator.computeLR1 /  *)
(* mergeStates, LRGenerator constructor / computeMode / computeAuto.        *)

ReduceOf(g, p) ==
  Reduce(symbolsTable(g, ProdOf(g, p).head), Len(ProdOf(g, p).body), p)

\* this.productions.findIndex(x => x.equals(p))
FindProductionIndex(g, prod) ==
  LET ks == {k \in 1..Len(g.productions) : Productions(g)[k] = prod}
  IN IF ks = {} THEN -1 ELSE (CHOOSE k \in ks : \A j \in ks : k <= j) - 1

\* this.action[i] = this.action[i] ?? {}
EnsureRow(g, act, st) ==
  IF st \in DOMAIN act THEN act ELSE Put(act, st, EmptyRow(g, None))

\* SLR: one tryAddAction per element of FOLLOW(head), in set order
RECURSIVE AddReduceOnFollow(_, _, _, _, _)
AddReduceOnFollow(g, out, st, follow, p) ==
  IF follow = <<>> \/ out.thrown THEN out
  ELSE AddReduceOnFollow(g, tryAddAction(g, out, st, Head(follow), ReduceOf(g, p)),
                         st, Tail(follow), p)

\* LALRGenerator.mergeStates(j, state, other), from 1-based position k of `state`
RECURSIVE mergeStates(_, _, _, _, _, _)
mergeStates(g, out, j, state, other, k) ==
  IF k > Len(state) \/ out.thrown THEN out
  ELSE LET ms == {m \in 1..Len(other) : GItemEquals(g, other[m], state[k])}
           o == other[CHOOSE m \in ms : \A n \in ms : m <= n]
           pIndex == FindProductionIndex(g, ProdOf(g, o.p))
           withRow == [out EXCEPT !.act = EnsureRow(g, @, j)]
           o1 == IF ~isAtEnd(g, state[k]) \/ ms = {} \/ pIndex < 0 THEN out
                 ELSE IF ProdOf(g, o.p).head = S1(g) THEN WriteAccept(withRow, j)
                 ELSE tryAddAction(g, withRow, j, o.la, ReduceOf(g, pIndex))
       IN mergeStates(g, o1, j, state, other, k + 1)

\* The locals and fields computeSLR / computeLR1 work on
Run(sts, i, k, act, gt, log, thrown) ==
  [states |-> sts, i |-> i, k |-> k, act |-> act, gt |-> gt, log |-> log,
   thrown |-> thrown]

Thread(c) == [act |-> c.act, log |-> c.log, thrown |-> FALSE]

After(c, out) ==
  [c EXCEPT !.act = out.act, !.log = out.log, !.thrown = out.thrown, !.k = @ + 1]

\* What the constructor does with grammar.mode before dispatching
ToUpperCase(m) ==
  CASE m = "slr" -> "SLR" [] m = "lalr" -> "LALR" [] m = "lr1" -> "LR1" [] OTHER -> m

\* LRGenerator constructor: the mode computeMode is called with, "" for computeAuto
DispatchMode(g) ==
  LET mode == ToUpperCase(g.mode)
  IN CASE mode = "lalr" -> "lalr"
       [] mode = "slr" -> "slr"
       [] mode = "lr1" -> "lr1"
       [] OTHER -> ""

StartItem(g, mode) ==
  IF mode = "slr" THEN closure(g, <<Item(StartProductionId, 0, NoSymbol)>>)
  ELSE closureLR1(g, <<Item(StartProductionId, 0, EofName(g))>>)

\* entry of computeSLR / computeLR1 on a fresh generator object
Entry(g, mode) == Run(<<StartItem(g, mode)>>, 0, 1, EmptyMap, EmptyMap, <<>>, FALSE)

\* const act = (this.action[i] = this.action[i] ?? {})
EnterState(g, c) == [c EXCEPT !.act = EnsureRow(g, @, c.i), !.k = 1]

\* the branch of the item loop for a completed item of a grammar production
ReduceBranch(g, mode, c) ==
  LET item == c.states[c.i + 1][c.k]
  IN After(c, IF mode = "slr"
              THEN AddReduceOnFollow(g, Thread(c), c.i,
                                     Follow(g)[ProdOf(g, item.p).head], item.p)
              ELSE tryAddAction(g, Thread(c), c.i, item.la, ReduceOf(g, item.p)))

\* the branch of the item loop for the completed augmenting item
AcceptBranch(c) == After(c, WriteAccept(Thread(c), c.i))

\* the branch of the item loop for an item with a symbol ahead
AdvanceBranch(g, mode, c) ==
  LET I == c.states[c.i + 1]
      x == symbolAhead(g, I[c.k])
      n == symbolsTable(g, x)
  IN Strict(LAMBDA Ij :
       Strict(LAMBDA found :
         Strict(LAMBDA merged :
           LET j == IF found < 0 THEN Len(c.states) ELSE found
               c1 == [c EXCEPT !.states = IF found < 0 THEN Append(@, Ij) ELSE @]
           IN IF merged.thrown THEN After(c1, merged)
              ELSE IF isNonTerminal(g, x)
              THEN After([c1 EXCEPT
                            !.gt = Put(@, c.i, Put(Get(@, c.i, EmptyRow(g, Undefined)),
                                                   n, j))],
                         merged)
              ELSE After(c1, tryAddAction(g, merged, c.i, x, Shift(j))),
           IF found >= 0 /\ mode = "lalr"
           THEN mergeStates(g, Thread(c), found, c.states[found + 1], Ij, 1)
           ELSE Thread(c)),
         findState(g, c.states, Ij, mode = "lalr")),
       IF mode = "slr" THEN gotoLR0(g, I, x) ELSE gotoLR1(g, I, x))

ItemKind(g, c) ==
  LET item == c.states[c.i + 1][c.k]
  IN IF ~isAtEnd(g, item) THEN "advance"
     ELSE IF ProdOf(g, item.p).head # S1(g) THEN "reduce" ELSE "accept"

-----------------------------------------------------------------------------
(* The constructors, one step per loop iteration                            *)

Cur == Run(states, gi, gk, genAction, genGoto, cellLog, gpc = "thrown")

Becomes(c) ==
  /\ states' = c.states
  /\ gi' = c.i
  /\ gk' = c.k
  /\ genAction' = c.act
  /\ genGoto' = c.gt
  /\ cellLog' = c.log

Construct ==
  /\ gpc = "new"
  /\ LET m == IF ctor = "LRGenerator" THEN DispatchMode(grammar)
              ELSE IF ctor = "SLRGenerator" THEN "slr"
              ELSE IF ctor = "LALRGenerator" THEN "lalr" ELSE "lr1"
         first == IF m = "" THEN "slr" ELSE m
     IN /\ auto' = (m = "")
        /\ attempt' = first
        /\ Becomes(Entry(grammar, first))
  /\ gpc' = "loop"
  /\ UNCHANGED <<grammar, ctor, errors, action, goto, statesTable, builtBy>>
  /\ UNCHANGED <<parseVars, lexVars, buildVars, serialVars, lowerVars>>

BeginState ==
  /\ gpc = "loop" /\ gi < Len(states)
  /\ Becomes(EnterState(grammar, Cur))
  /\ gpc' = "items"
  /\ UNCHANGED <<grammar, ctor, attempt, auto, errors, action, goto, statesTable,
                 builtBy>>
  /\ UNCHANGED <<parseVars, lexVars, buildVars, serialVars, lowerVars>>

ItemStep(kind, c) ==
  /\ gpc = "items" /\ gk <= Len(states[gi + 1])
  /\ ItemKind(grammar, Cur) = kind
  /\ Becomes(c)
  /\ gpc' = IF c.thrown THEN "thrown" ELSE "items"
  /\ UNCHANGED <<grammar, ctor, attempt, auto, errors, action, goto, statesTable,
                 builtBy>>
  /\ UNCHANGED <<parseVars, lexVars, buildVars, serialVars, lowerVars>>

ReduceItem == ItemStep("reduce", ReduceBranch(grammar, attempt, Cur))
AcceptItem == ItemStep("accept", AcceptBranch(Cur))
AdvanceItem == ItemStep("advance", AdvanceBranch(grammar, attempt, Cur))

EndState ==
  /\ gpc = "items" /\ gk > Len(states[gi + 1])
  /\ gi' = gi + 1
  /\ gpc' = "loop"
  /\ UNCHANGED <<grammar, ctor, attempt, auto, errors, states, gk, genAction, genGoto,
                 action, goto, statesTable, builtBy, cellLog>>
  /\ UNCHANGED <<parseVars, lexVars, buildVars, serialVars, lowerVars>>

\* end of computeSLR / computeLR1, and the copy done by computeMode
Finish ==
  /\ gpc = "loop" /\ gi >= Len(states)
  /\ statesTable' = states
  /\ action' = genAction
  /\ goto' = genGoto
  /\ builtBy' = attempt
  /\ gpc' = "built"
  /\ UNCHANGED <<grammar, ctor, attempt, auto, errors, states, gi, gk,
                 genAction, genGoto, cellLog>>
  /\ UNCHANGED <<parseVars, lexVars, buildVars, serialVars, lowerVars>>

\* a variant in which the next attempt goes on with the ACTION table of the
\* attempt that failed
CatchFallbackLeftover ==
  /\ gpc = "thrown" /\ auto /\ attempt # "lr1"
  /\ errors' = Append(errors, attempt)
  /\ attempt' = IF attempt = "slr" THEN "lalr" ELSE "lr1"
  /\ Becomes([Entry(grammar, attempt') EXCEPT !.act = genAction])
  /\ gpc' = "loop"
  /\ UNCHANGED <<grammar, ctor, auto, action, goto, statesTable, builtBy>>
  /\ UNCHANGED <<parseVars, lexVars, buildVars, serialVars, lowerVars>>

\* computeAuto: catch of the SLR or LALR attempt, then the next attempt
CatchFallback ==
  /\ gpc = "thrown" /\ auto /\ attempt # "lr1"
  /\ errors' = Append(errors, attempt)
  /\ attempt' = IF attempt = "slr" THEN "lalr" ELSE "lr1"
  /\ Becomes(Entry(grammar, attempt'))
  /\ gpc' = "loop"
  /\ UNCHANGED <<grammar, ctor, auto, action, goto, statesTable, builtBy>>
  /\ UNCHANGED <<parseVars, lexVars, buildVars, serialVars, lowerVars>>

\* the error leaves the constructor: no generator object, no tables
CatchFail ==
  /\ gpc = "thrown" /\ (~auto \/ attempt = "lr1")
  /\ errors' = Append(errors, attempt)
  /\ gpc' = "failed"
  /\ UNCHANGED <<grammar, ctor, attempt, auto, states, gi, gk, genAction, genGoto,
                 action, goto, statesTable, builtBy, cellLog>>
  /\ UNCHANGED <<parseVars, lexVars, buildVars, serialVars, lowerVars>>

GenNext ==
  \/ Construct \/ BeginState \/ ReduceItem \/ AcceptItem \/ AdvanceItem
  \/ EndState \/ Finish \/ CatchFallback \/ CatchFail

-----------------------------------------------------------------------------
(* Input grammars (GrammarDefinition objects handed to the constructors)    *)

\* a SimpleProduction whose handler reference is a bare index
Prod(name, expr, act) ==
  [name |-> name, expr |-> expr, action |-> act, mods |-> <<>>]
Opr(name, assoc, prior) == [name |-> name, assoc |-> assoc, prior |-> prior]

Definition(tokens, prods, oprs, mode, policy) ==
  [tokens |-> tokens, productions |-> prods,
   actions |-> [k \in 1..Len(prods) |-> k], operators |-> oprs,
   startSymbol |-> "", eofToken |-> "", mode |-> mode,
   conflictPolicy |-> [shiftReduce |-> policy]]

\* E -> E plus E | num   (part_009 'Error Handling'), handler only on the sum
ExprProds == <<Prod("E", <<"E", "plus", "E">>, 0), Prod("E", <<"num">>, Undefined)>>
ExprGrammar(oprs, mode, policy) ==
  Definition({"plus", "num"}, ExprProds, oprs, mode, policy)

\* E -> E plus E | E lt E | num
Expr2Prods == <<Prod("E", <<"E", "plus", "E">>, 0), Prod("E", <<"E", "lt", "E">>, 1),
                Prod("E", <<"num">>, 2)>>
Expr2Grammar(oprs, mode, policy) ==
  Definition({"plus", "lt", "num"}, Expr2Prods, oprs, mode, policy)

\* E -> E plus T | T ; T -> num
TermProds == <<Prod("E", <<"E", "plus", "T">>, 0), Prod("E", <<"T">>, Undefined),
               Prod("T", <<"num">>, 1)>>
TermGrammar(mode) == Definition({"plus", "num"}, TermProds, <<>>, mode, "")

\* S -> A ; A -> S | a
CycleProds == <<Prod("S", <<"A">>, Undefined), Prod("A", <<"S">>, Undefined),
                Prod("A", <<"a">>, 0)>>
CycleGrammar(policy) == Definition({"a"}, CycleProds, <<>>, "", policy)

\* S -> A x | d z | y A z ; A -> d    (LALR(1) but not SLR(1))
LalrProds == <<Prod("S", <<"A", "x">>, 0), Prod("S", <<"d", "z">>, 1),
               Prod("S", <<"y", "A", "z">>, 2), Prod("A", <<"d">>, Undefined)>>
LalrGrammar(mode) == Definition({"x", "y", "z", "d"}, LalrProds, <<>>, mode, "")

\* S -> B C ; B -> b ; C -> c | (empty)
NullableProds == <<Prod("S", <<"B", "C">>, 0), Prod("B", <<"b">>, Undefined),
                   Prod("C", <<"c">>, Undefined), Prod("C", <<>>, Undefined)>>
NullableGrammar(mode) == Definition({"b", "c"}, NullableProds, <<>>, mode, "")

\* S -> x A b | x A c | y A d | y A f | z A b ; A -> e   (the item sets
\* reached on e share their LR(0) items and differ in lookaheads)
MergeProds == <<Prod("S", <<"x", "A", "b">>, 0), Prod("S", <<"x", "A", "c">>, 0),
                Prod("S", <<"y", "A", "d">>, 0), Prod("S", <<"y", "A", "f">>, 0),
                Prod("S", <<"z", "A", "b">>, 0), Prod("A", <<"e">>, Undefined)>>
MergeGrammar(mode) ==
  Definition({"x", "y", "z", "b", "c", "d", "f", "e"}, MergeProds, <<>>, mode, "")

\* E -> E q E colon E | num   (a body with two operators)
TernaryProds == <<Prod("E", <<"E", "q", "E", "colon", "E">>, 0),
                  Prod("E", <<"num">>, Undefined)>>
TernaryGrammar(oprs, policy) ==
  Definition({"q", "colon", "num"}, TernaryProds, oprs, "", policy)

\* S -> a A d | b B d | a B e | b A e ; A -> c ; B -> c   (LR(1) but not LALR(1))
Lr1Prods == <<Prod("S", <<"a", "A", "d">>, 0), Prod("S", <<"b", "B", "d">>, 0),
              Prod("S", <<"a", "B", "e">>, 0), Prod("S", <<"b", "A", "e">>, 0),
              Prod("A", <<"c">>, Undefined), Prod("B", <<"c">>, Undefined)>>
Lr1Grammar(oprs, policy) ==
  Definition({"a", "b", "c", "d", "e"}, Lr1Prods, oprs, "", policy)

Modes == {"", "slr", "lalr", "lr1"}
Policies == {"", "shift", "reduce"}
Assocs == {"left", "right", "nonassoc"}

Grammars ==
  {ExprGrammar(<<>>, m, "") : m \in Modes}
  \cup {ExprGrammar(<<Opr("plus", as, 1)>>, "", pol) : as \in Assocs, pol \in Policies}
  \cup {Expr2Grammar(<<Opr("plus", as, p1), Opr("lt", "nonassoc", 2)>>, "", pol) :
          as \in {"left", "right"}, p1 \in {1, 3}, pol \in {"", "shift"}}
  \cup {TermGrammar(m) : m \in Modes}
  \cup {CycleGrammar(pol) : pol \in {"", "shift"}}
  \cup {LalrGrammar(m) : m \in Modes}
  \cup {NullableGrammar("")}
  \cup {MergeGrammar(m) : m \in {"lalr", "lr1"}}
  \cup {Expr2Grammar(<<Opr("plus", "left", 1)>>, "", pol) : pol \in {"shift", "reduce"}}
  \cup {TernaryGrammar(<<Opr("q", "left", 2), Opr("colon", "left", 1)>>, "")}
  \cup {Lr1Grammar(<<Opr("d", "left", 1)>>, "shift")}

Constructors == {"LRGenerator", "SLRGenerator", "LALRGenerator", "LR1Generator"}

GenFresh ==
  /\ attempt = "" /\ auto = FALSE /\ errors = <<>>
  /\ states = <<>> /\ gi = 0 /\ gk = 1
  /\ genAction = EmptyMap /\ genGoto = EmptyMap
  /\ action = EmptyMap /\ goto = EmptyMap /\ statesTable = <<>> /\ builtBy = ""
  /\ cellLog = <<>>

GenInit == gpc = "new" /\ GenFresh

-----------------------------------------------------------------------------
(* Parser: parse / executeAction / shift / reduce / accept / error, and the *)
(* WrappedTokenArray token stream.  A semantic value is a term: a token's   *)
(* value, the application of a production handler to a receiver and an      *)
(* argument list, or the list built by `identity`.                          *)

Value(k, h, ctx, args) == [k |-> k, h |-> h, ctx |-> ctx, args |-> args]
NoValue == Value("none", 0, 0, <<>>)
TokenValue(at) == Value("token", at, 0, <<>>)

Token(name, value) == [name |-> name, value |-> value]
NoToken == Token(NoSymbol, NoValue)
EOF == Token(DEFAULT_EOF_TOKEN, Value("eof", 0, 0, <<>>))

\* new WrappedTokenArray(tokens)
WrappedTokenArray(tokens) == [tokens |-> tokens, pos |-> 0]

\* WrappedTokenArray.nextToken: the token returned and the stream afterwards
nextToken(st) ==
  IF st.pos >= Len(st.tokens) THEN [tok |-> EOF, stream |-> st]
  ELSE [tok |-> st.tokens[st.pos + 1], stream |-> [st EXCEPT !.pos = @ + 1]]

isEOF(t) == t.name = EOF.name

\* action.apply(this.context, values); `identity` returns its argument list
Apply(handler, receiver, values) ==
  IF handler = Undefined THEN Value("list", 0, 0, values)
  ELSE Value("apply", handler, receiver, values)

NoError == [kind |-> "", token |-> NoToken, state |-> Undefined]
ParserError(kind, token, state) == [kind |-> kind, token |-> token, state |-> state]

\* The Parser object's runtime fields, with the histories of the running call
Fields(st, ctx, tok, n, stk, acc, err, pc, res, cs, tr, tp, ex) ==
  [stream |-> st, context |-> ctx, a |-> tok, an |-> n, stack |-> stk,
   accepted |-> acc, inError |-> err, ppc |-> pc, result |-> res, calls |-> cs,
   trace |-> tr, top |-> tp, raised |-> ex]

Frame(s, i) == [s |-> s, i |-> i]
NoFrame == Frame(Undefined, NoToken)
Top(stk) == stk[Len(stk)]

\* a Parser right after its constructor
NewParser ==
  Fields(WrappedTokenArray(<<>>), 0, NoToken, Undefined, <<>>, FALSE, FALSE, "idle",
         NoValue, <<>>, <<>>, NoFrame, NoError)

\* a variant of the entry that leaves `accepted` as the last call left it
parseEntryStale(p, tokens, ctx) ==
  LET first == nextToken(WrappedTokenArray(tokens))
  IN [p EXCEPT !.stack = <<Frame(0, first.tok)>>, !.context = ctx,
               !.stream = first.stream, !.a = first.tok, !.inError = FALSE,
               !.top = NoFrame, !.ppc = "run", !.result = NoValue, !.calls = <<>>,
               !.trace = <<"read">>, !.raised = NoError]

\* parse(), up to the loop
parseEntry(p, tokens, ctx) ==
  LET first == nextToken(WrappedTokenArray(tokens))
  IN [p EXCEPT !.stack = <<Frame(0, first.tok)>>, !.context = ctx,
               !.stream = first.stream, !.a = first.tok,
               !.accepted = FALSE, !.inError = FALSE,
               !.top = NoFrame, !.ppc = "run", !.result = NoValue, !.calls = <<>>,
               !.trace = <<"read">>, !.raised = NoError]

\* this.an as the loop body assigns it
LookaheadId(p) == IF isEOF(p.a) THEN 0 ELSE symbolsTable(grammar, p.a.name)

\* this.action[s][this.an]; None is `undefined`
Lookup(p) ==
  LET s == Top(p.stack).s
      n == LookaheadId(p)
  IN IF s \in DOMAIN action /\ n \in DOMAIN action[s] THEN action[s][n] ELSE None

shift(p, state) ==
  LET next == nextToken(p.stream)
  IN [p EXCEPT !.stack = Append(@, Frame(state, p.a)), !.a = next.tok,
               !.stream = next.stream, !.trace = @ \o <<"shift", "read">>]

\* Arrays and `undefined` among the semantic values
List(items) == Value("list", 0, 0, items)
TypeError == Value("TypeError", 0, 0, <<>>)
\* thrown by a function rebuilt from its source text (deserializeFunction runs
\* `new Function`, whose body sees the global scope only) when it reads a
\* variable of the closure it was written in
ReferenceError == Value("ReferenceError", 0, 0, <<>>)
IsException(v) == v.k \in {"TypeError", "ReferenceError"}
NoReceiver == 0

\* args.slice(0, n) and args.slice(n)
Take(args, n) == SubSeq(args, 1, IF n < Len(args) THEN n ELSE Len(args))
Drop(args, n) == SubSeq(args, (IF n < Len(args) THEN n ELSE Len(args)) + 1, Len(args))

\* compileActionRecord(rec, f)(...args): rec is given by its layers `mods` and
\* the handler fn its innermost rec[1] stands for (Undefined: identityFunc).
\* The wrappers are arrow functions: the handler is called without a receiver.
RECURSIVE compileActionRecord(_, _, _)
compileActionRecord(mods, fn, args) ==
  IF mods = <<>> THEN Apply(fn, NoReceiver, args)
  ELSE
    LET kind == Head(mods).kind
        i == Head(mods).args[1]
        t == Head(mods).args[2]
        nextFunc(values) == compileActionRecord(Tail(mods), fn, values)
        isArray(v) == v.k = "list"
        at(v, n) == IF n < Len(v.args) THEN v.args[n + 1] ELSE NoValue
        pre == IF args = <<>> THEN NoValue ELSE args[1]
        post == IF Len(args) < 2 THEN NoValue ELSE args[2]
    IN CASE kind = "epsilon" -> nextFunc(Take(args, i) \o <<NoValue>> \o Drop(args, i))
         [] kind = "merge" ->
              nextFunc(Take(args, i) \o <<List(Take(Drop(args, i), t))>>
                       \o Drop(args, i + t))
         [] kind = "collect" -> nextFunc(<<List(args), List(<<>>)>>)
         [] kind = "append" ->
              IF isArray(pre) /\ isArray(at(pre, 1))
              THEN nextFunc(<<at(pre, 0),
                              List(at(pre, 1).args \o <<List(Drop(args, 1))>>)>>)
              ELSE TypeError
         [] kind = "apply" ->
              IF isArray(pre) /\ isArray(at(pre, 0))
              THEN nextFunc(at(pre, 0).args \o <<at(pre, 1)>>
                            \o (IF isArray(post) THEN post.args ELSE <<post>>))
              ELSE TypeError
         [] OTHER -> nextFunc(args)

\* this.actions[prodIndex] of the generator (processProductions), applied as
\* reduce applies it; a production without handler gets `identity`
Invoke(g, prodIndex, receiver, values) ==
  IF g.productions[prodIndex + 1].mods = <<>>
  THEN Apply(GenActions(g)[prodIndex + 1], receiver, values)
  ELSE IF scope = "global" THEN ReferenceError
  ELSE compileActionRecord(g.productions[prodIndex + 1].mods,
                           GenActions(g)[prodIndex + 1], values)

\* rhs.map(si => si.i.value)
PoppedValuesReversed(rhs) == [k \in 1..Len(rhs) |-> rhs[Len(rhs) + 1 - k].i.value]

PoppedValues(rhs) == [k \in 1..Len(rhs) |-> rhs[k].i.value]

\* a variant in which a length of zero takes the whole stack, as
\* stack.slice(-length) would
reduceWholeStack(p, head, length, prodIndex) ==
  LET n == Len(p.stack)
      cut == IF length = 0 \/ length > n THEN 0 ELSE n - length
      rhs == SubSeq(p.stack, cut + 1, n)
      rest == SubSeq(p.stack, 1, cut)
      t == IF rest = <<>> THEN NoFrame ELSE Top(rest)
      ns == Get(Get(goto, t.s, EmptyMap), head, Undefined)
      values == PoppedValues(rhs)
      value == Invoke(grammar, prodIndex, p.context, values)
      nt == Token(Symbols(grammar)[head + 1], value)
  IN IF IsException(value)
     THEN [p EXCEPT !.ppc = "threw", !.raised = ParserError(value.k, NoToken, Undefined)]
     ELSE [p EXCEPT !.stack = Append(rest, Frame(ns, nt)),
                    !.calls = Append(@, [pid |-> prodIndex, head |-> nt.name,
                                         args |-> values, ctx |-> p.context,
                                         result |-> value]),
                    !.trace = Append(@, "reduce")]

reduce(p, head, length, prodIndex) ==
  LET n == Len(p.stack)
      cut == IF length = 0 \/ length > n THEN 0 ELSE n - length
      rhs == IF length = 0 THEN <<>> ELSE SubSeq(p.stack, cut + 1, n)
      rest == IF length = 0 THEN p.stack ELSE SubSeq(p.stack, 1, cut)
      t == Top(rest)
      ns == Get(Get(goto, t.s, EmptyMap), head, Undefined)
      values == PoppedValues(rhs)
      value == Invoke(grammar, prodIndex, p.context, values)
      nt == Token(Symbols(grammar)[head + 1], value)
  IN IF IsException(value)
     THEN [p EXCEPT !.ppc = "threw", !.raised = ParserError(value.k, NoToken, Undefined)]
     ELSE [p EXCEPT !.stack = Append(rest, Frame(ns, nt)),
                    !.calls = Append(@, [pid |-> prodIndex, head |-> nt.name,
                                         args |-> values, ctx |-> p.context,
                                         result |-> value]),
                    !.trace = Append(@, "reduce")]

\* a variant that also discards the frames below the top one
acceptKeepTop(p) ==
  [p EXCEPT !.accepted = TRUE, !.trace = Append(@, "accept"),
            !.stack = <<p.stack[Len(p.stack)]>>]

accept(p) == [p EXCEPT !.accepted = TRUE, !.trace = Append(@, "accept")]

\* a variant returning the value of the bottom frame
ReturnValueBottom(p) == p.stack[1].i.value

\* top.i.value
ReturnValue(p) == p.top.i.value

\* the loop is left: return top!.i.value (a TypeError if no iteration ran)
return(p) ==
  IF p.top = NoFrame
  THEN [p EXCEPT !.ppc = "threw", !.raised = ParserError("TypeError", NoToken, Undefined)]
  ELSE [p EXCEPT !.ppc = "returned", !.result = ReturnValue(p)]

\* executeAction on an 'error' record: this.error(message) throws
OnErrorAction(p) ==
  [p EXCEPT !.ppc = "threw", !.raised = ParserError("message", NoToken, Undefined)]

\* a recovering variant: drop the offending token and go on
OnMissingCellSkip(p) ==
  LET next == nextToken(p.stream)
  IN IF isEOF(p.a)
     THEN [p EXCEPT !.inError = TRUE, !.ppc = "threw",
                    !.raised = ParserError("token", p.a, Top(p.stack).s)]
     ELSE [p EXCEPT !.a = next.tok, !.stream = next.stream,
                    !.trace = Append(@, "read")]

\* executeAction returned false: inError = true; this.error(this.a) throws
OnMissingCell(p) ==
  [p EXCEPT !.inError = TRUE, !.ppc = "threw",
            !.raised = ParserError("token", p.a, Top(p.stack).s)]

\* one iteration of the loop of parse()
LoopBody(p) ==
  LET rec == Lookup(p)
      q == [p EXCEPT !.an = LookaheadId(p), !.top = Top(p.stack)]
  IN CASE rec.t = "shift" -> shift(q, rec.a[1])
       [] rec.t = "reduce" -> reduce(q, rec.a[1], rec.a[2], rec.a[3])
       [] rec.t = "accept" -> accept(q)
       [] rec.t = "error" -> OnErrorAction(q)
       [] OTHER -> OnMissingCell(q)

RECURSIVE Loop(_)
Loop(p) ==
  IF p.ppc # "run" THEN p
  ELSE IF p.accepted \/ p.inError THEN return(p)
  ELSE Loop(LoopBody(p))

\* parser.parse(new WrappedTokenArray(tokens), ctx)
parse(p, tokens, ctx) == Loop(parseEntry(p, tokens, ctx))

\* what the caller of parse observes
Outcome(p) == [ended |-> p.ppc, value |-> p.result, error |-> p.raised]

-----------------------------------------------------------------------------
(* Parsing with a built Parser: one step per iteration of the loop          *)

MaxLen == 4
MaxParses == 2
Contexts == {1, 2}

\* token arrays as a lexer would hand them over: names of grammar tokens,
\* each value telling its position
TokenArrays(g) ==
  UNION {[1..n -> g.tokens] : n \in 0..MaxLen}

Tokenized(names) == [k \in 1..Len(names) |-> Token(names[k], TokenValue(k))]

Parser ==
  Fields(stream, context, a, an, stack, accepted, inError, ppc, result, calls, trace,
         top, raised)

ParserBecomes(p) ==
  /\ stream' = p.stream
  /\ context' = p.context
  /\ a' = p.a
  /\ an' = p.an
  /\ stack' = p.stack
  /\ accepted' = p.accepted
  /\ inError' = p.inError
  /\ ppc' = p.ppc
  /\ result' = p.result
  /\ calls' = p.calls
  /\ trace' = p.trace
  /\ top' = p.top
  /\ raised' = p.raised

\* the caller calls parse(stream, context) on the Parser
StartParse ==
  /\ gpc = "built" /\ ppc # "run" /\ nparse < MaxParses
  /\ \E names \in TokenArrays(grammar), ctx \in Contexts :
       /\ input' = [tokens |-> Tokenized(names), ctx |-> ctx]
       /\ ParserBecomes(parseEntry(Parser, Tokenized(names), ctx))
  /\ nparse' = nparse + 1
  /\ earlier' = IF ppc = "idle" THEN earlier ELSE earlier \cup {ppc}
  /\ UNCHANGED <<genVars, lexVars, buildVars, serialVars, lowerVars>>

Iteration(kind, p) ==
  /\ ppc = "run" /\ ~accepted /\ ~inError
  /\ Lookup(Parser).t = kind
  /\ ParserBecomes(p)
  /\ UNCHANGED <<nparse, input, earlier>>
  /\ UNCHANGED <<genVars, lexVars, buildVars, serialVars, lowerVars>>

WithLookahead == [Parser EXCEPT !.an = LookaheadId(Parser), !.top = Top(stack)]

ShiftStep == Iteration("shift", shift(WithLookahead, Lookup(Parser).a[1]))
ReduceStep ==
  Iteration("reduce", reduce(WithLookahead, Lookup(Parser).a[1], Lookup(Parser).a[2],
                             Lookup(Parser).a[3]))
AcceptStep == Iteration("accept", accept(WithLookahead))
ErrorStep == Iteration("error", OnErrorAction(WithLookahead))
MissingStep == Iteration("none", OnMissingCell(WithLookahead))

\* the loop condition fails: parse returns
ReturnStep ==
  /\ ppc = "run" /\ (accepted \/ inError)
  /\ ParserBecomes(return(Parser))
  /\ UNCHANGED <<nparse, input, earlier>>
  /\ UNCHANGED <<genVars, lexVars, buildVars, serialVars, lowerVars>>

ParseNext ==
  \/ StartParse \/ ShiftStep \/ ReduceStep \/ AcceptStep \/ ErrorStep \/ MissingStep
  \/ ReturnStep

\* grammars the parsers are built from (through the builder: LRGenerator)
ParseGrammars ==
  {ExprGrammar(<<Opr("plus", as, 1)>>, "", "") : as \in Assocs}
  \cup {TermGrammar(""), ExprGrammar(<<>>, "", "")}

ParserIs(p) ==
  /\ stream = p.stream
  /\ context = p.context
  /\ a = p.a
  /\ an = p.an
  /\ stack = p.stack
  /\ accepted = p.accepted
  /\ inError = p.inError
  /\ ppc = p.ppc
  /\ result = p.result
  /\ calls = p.calls
  /\ trace = p.trace
  /\ top = p.top
  /\ raised = p.raised

NoParser ==
  /\ ParserIs(NewParser)
  /\ nparse = 0
  /\ input = [tokens |-> <<>>, ctx |-> 0]
  /\ earlier = {}

-----------------------------------------------------------------------------
(* Lexer engine.  The input is a sequence of one-character strings.  A      *)
(* pattern is a literal string or a sticky regular expression; the regular  *)
(* expressions are c* and c+ for a character c, given by the character and  *)
(* the least number of repetitions.                                         *)

Chars == {"a", "b", " "}

\* str before reset(str) has assigned an input
NoInput == <<"undefined">>

\* `undefined` where a name or a value is expected
NoName == "undefined"

Str(lit) == [isRegExp |-> FALSE, pattern |-> lit, min |-> 0]
Star(c) == [isRegExp |-> TRUE, pattern |-> <<c>>, min |-> 0]
Plus(c) == [isRegExp |-> TRUE, pattern |-> <<c>>, min |-> 1]

\* number of consecutive c in s from 0-based index `from`
RECURSIVE RunLength(_, _, _)
RunLength(s, c, from) ==
  IF from < Len(s) /\ s[from + 1] = c THEN 1 + RunLength(s, c, from + 1) ELSE 0

\* pat.lastIndex = origPos; pat.exec(str) for a sticky pattern, and
\* str.startsWith(pat, origPos) for a literal: the length of the lexeme, or
\* -1 when the pattern does not match at origPos
Match(pat, s, origPos) ==
  IF pat.isRegExp
  THEN LET n == RunLength(s, pat.pattern[1], origPos)
       IN IF n >= pat.min THEN n ELSE -1
  ELSE LET n == Len(pat.pattern)
       IN IF origPos + n <= Len(s) /\ SubSeq(s, origPos + 1, origPos + n) = pat.pattern
          THEN n ELSE -1

\* LexerBuilder.t(name, pattern): a null name registers the selector
\* ignoreName, a function is registered as the selector
T(name, sel, pat) ==
  [name |-> IF name = NoName \/ sel # "" THEN "OPTIONAL_TOKEN_0" ELSE name,
   pat |-> pat,
   f |-> "lexemeAsValue",
   n |-> IF name = NoName /\ sel = "" THEN "ignoreName" ELSE sel]

\* LexerBuilder.define(options): eofValue defaults to options.eofName
define(records, eofName, eofValue, hasEofValue) ==
  [records |-> records, eofName |-> eofName,
   eofValue |-> IF hasEofValue THEN eofValue ELSE eofName]

\* Lexer constructor: this.eofName = eofName || DEFAULT_EOF_TOKEN
LexerEofName(lx) ==
  IF lx.eofName = NoName \/ lx.eofName = "" THEN DEFAULT_EOF_TOKEN ELSE lx.eofName

\* the handlers: dummyHandler is lexemeAsValue
Handle(f, lexeme) == lexeme

\* the name selectors: ignoreName discards every match, onlyShort names a
\* one-character lexeme "short" and discards longer ones
Select(n, value, lexeme) ==
  CASE n = "ignoreName" -> NoName
    [] n = "onlyShort" -> IF Len(lexeme) = 1 THEN "short" ELSE NoName

NoLexToken == [name |-> NoName, lexeme |-> <<>>, value |-> <<>>, position |-> -1]

EofToken(lx, origPos) ==
  [name |-> LexerEofName(lx), lexeme |-> <<LexerEofName(lx)>>,
   value |-> <<lx.eofValue>>, position |-> origPos]

Returned(tok, p) == [tok |-> tok, err |-> "", pos |-> p]
Thrown(msg, p) == [tok |-> NoLexToken, err |-> msg, pos |-> p]

\* a variant in which a match never moves this.pos
NewPosStay(origPos, len, advance) == origPos

\* this.pos after a record was tried: pat.lastIndex / origPos + pat.length
\* when the record matched and advance is set
NewPos(origPos, len, advance) ==
  IF len >= 0 /\ advance THEN origPos + len ELSE origPos

RECURSIVE LexerNextToken(_, _, _, _)
RECURSIVE MatchEach(_, _, _, _, _)

\* the loop over this.records from record k on
MatchEach(lx, s, origPos, advance, k) ==
  IF k > Len(lx.records) THEN Thrown("Unknown token", origPos)
  ELSE LET r == lx.records[k]
           len == Match(r.pat, s, origPos)
           p == NewPos(origPos, len, advance)
           advanced == len >= 0 /\ advance
       IN IF advanced /\ p = origPos THEN Thrown("Zero-length token", p)
          ELSE IF len >= 0
          THEN LET lexeme == SubSeq(s, origPos + 1, origPos + len)
                   value == Handle(r.f, lexeme)
                   realName == IF r.n = "" THEN r.name ELSE Select(r.n, value, lexeme)
               IN IF r.n # "" /\ realName = NoName
                  THEN LexerNextToken(lx, s, p, TRUE)
                  ELSE Returned([name |-> realName, lexeme |-> lexeme,
                                 value |-> value, position |-> origPos], p)
          ELSE MatchEach(lx, s, origPos, advance, k + 1)

\* Lexer.nextToken(advance) at position origPos: what it returns or throws,
\* and this.pos afterwards
LexerNextToken(lx, s, origPos, advance) ==
  IF s = NoInput THEN Thrown("No input string assigned.", origPos)
  ELSE IF origPos < 0 \/ origPos > Len(s)
  THEN Thrown("Invalid pointer position", origPos)
  ELSE IF origPos >= Len(s) THEN Returned(EofToken(lx, origPos), origPos)
  ELSE MatchEach(lx, s, origPos, advance, 1)

-----------------------------------------------------------------------------
(* EBNF -> BNF lowering (ebnf.ts).  An element of a ComplexExpression is a  *)
(* plain symbol or an EbnfElement holding a productionList of alternatives. *)
(* A production's handler reference is `action`, the handler index at the   *)
(* leaf of the ProductionHandlerModifier tree (Undefined for `undefined`),  *)
(* and `mods`, the tree's layers [kind, args] from the outermost inwards;   *)
(* a bare index has no layers.                                              *)

Sym(name) ==
  [isEbnf |-> FALSE, type |-> "identifier", value |-> name, productionList |-> <<>>,
   mult |-> Undefined]
EbnfElement(type, productionList, mult) ==
  [isEbnf |-> TRUE, type |-> type, value |-> "", productionList |-> productionList,
   mult |-> mult]

Layer(kind, args) == [kind |-> kind, args |-> args]
ComplexProduction(name, expr, act, mods) ==
  [name |-> name, expr |-> expr, action |-> act, mods |-> mods]

\* [kind, current.action, args]
Modified(kind, current, args) ==
  [action |-> current.action, mods |-> <<Layer(kind, args)>> \o current.mods]
Pushed(name, expr, h) == ComplexProduction(name, expr, h.action, h.mods)

\* Array.prototype.repeat (part_008)
RECURSIVE repeat(_, _)
repeat(arr, times) == IF times < 1 THEN <<>> ELSE arr \o repeat(arr, times - 1)

\* getIncrementName applied to `<head>_RPT_PRE_0` over and over
Digits ==
  <<"0", "1", "2", "3", "4", "5", "6", "7", "8", "9", "10", "11",
    "12", "13", "14", "15", "16", "17", "18", "19", "20", "21", "22",
    "23", "24", "25", "26", "27", "28", "29", "30", "31">>
RptNames(head) == [k \in 1..Len(Digits) |-> head \o "_RPT_PRE_" \o Digits[k]]

\* getName of convertToBnf: the first name of the chain that is not taken
getName(names, head) ==
  LET free == {k \in 1..Len(Digits) : RptNames(head)[k] \notin names}
  IN RptNames(head)[CHOOSE k \in free : \A j \in free : k <= j]

\* convertSingle, `optional`: the copies pushed for t = from..mult
RECURSIVE OptionalCopies(_, _, _, _)
OptionalCopies(current, i, t, mult) ==
  LET curElem == current.expr[i + 1]
      preExpr == SubSeq(current.expr, 1, i)
      postExpr == SubSeq(current.expr, i + 2, Len(current.expr))
      h == IF curElem.mult = Undefined
           THEN [action |-> current.action, mods |-> current.mods]
           ELSE Modified("merge", current, <<i, t>>)
  IN IF t > mult THEN <<>>
     ELSE [j \in 1..Len(curElem.productionList) |->
             Pushed(current.name,
                    preExpr \o repeat(curElem.productionList[j], t) \o postExpr, h)]
          \o OptionalCopies(current, i, t + 1, mult)

\* a variant of the round that takes the first alternative only
GroupRoundFirst(arr, productionList, k) ==
  [j \in 1..Len(arr) |-> arr[j] \o productionList[1]]

\* convertSingle, `group`: one round of arr.map(x => productionList.map(y => x.concat(y)))
RECURSIVE GroupRound(_, _, _)
GroupRound(arr, productionList, k) ==
  IF k > Len(arr) THEN <<>>
  ELSE [j \in 1..Len(productionList) |-> arr[k] \o productionList[j]]
       \o GroupRound(arr, productionList, k + 1)

RECURSIVE GroupArr(_, _, _)
GroupArr(arr, productionList, mult) ==
  IF mult < 1 THEN arr
  ELSE GroupArr(GroupRound(arr, productionList, 1), productionList, mult - 1)

\* convertSingle: what the branch for the EBNF element at index i pushes on
\* the work stack, the names taken afterwards, and whether the scan of the
\* expression goes on (`continue`) or stops (`break`)
Expand(current, i, names) ==
  LET curElem == current.expr[i + 1]
      preExpr == SubSeq(current.expr, 1, i)
      postExpr == SubSeq(current.expr, i + 2, Len(current.expr))
      pl == curElem.productionList
      dashed == getName(names, current.name)
      multOr(dflt) == IF curElem.mult = Undefined THEN dflt ELSE curElem.mult
      max0(m) == IF m < 0 THEN 0 ELSE m
  IN CASE curElem.type = "optional" ->
            [pushed |->
               <<Pushed(current.name, preExpr \o postExpr,
                        IF curElem.mult = Undefined
                        THEN Modified("epsilon", current, <<i>>)
                        ELSE Modified("merge", current, <<i, 0>>))>>
               \o OptionalCopies(current, i, 1, multOr(1)),
             names |-> names, continue |-> multOr(1) < 1]
       [] curElem.type = "repeat" ->
            [pushed |->
               <<ComplexProduction(dashed, preExpr, Undefined,
                                   <<Layer("collect", <<-1>>)>>)>>
               \o [j \in 1..Len(pl) |->
                     ComplexProduction(dashed, <<Sym(dashed)>> \o pl[j], Undefined,
                                       <<Layer("append", <<1, 1>>)>>)]
               \o <<Pushed(current.name, <<Sym(dashed)>> \o postExpr,
                           Modified("apply", current, <<0>>))>>,
             names |-> names \cup {dashed}, continue |-> FALSE]
       [] curElem.type = "mult" ->
            [pushed |->
               [j \in 1..Len(pl) |->
                  Pushed(current.name,
                         preExpr \o repeat(pl[j], max0(multOr(0))) \o postExpr,
                         Modified("merge", current, <<i, max0(multOr(0))>>))],
             names |-> names, continue |-> FALSE]
       [] curElem.type = "group" ->
            [pushed |->
               IF multOr(1) < 1
               THEN <<Pushed(current.name, preExpr \o postExpr,
                             Modified("collect", current, <<i, 0>>))>>
               ELSE LET arr == GroupArr(<<preExpr>>, pl, multOr(1))
                    IN [j \in 1..Len(arr) |->
                          Pushed(current.name, arr[j] \o postExpr,
                                 Modified("merge", current, <<i, multOr(1)>>))],
             names |-> names, continue |-> FALSE]

\* a variant of the scan that stops one element short of the end
RECURSIVE ScanExprSkipLast(_, _, _, _, _)
ScanExprSkipLast(current, i, cache, names, handled) ==
  IF i >= Len(current.expr) - 1
  THEN [cache |-> cache, names |-> names, handled |-> handled]
  ELSE IF ~current.expr[i + 1].isEbnf
  THEN ScanExprSkipLast(current, i + 1, cache, names, handled)
  ELSE Strict(LAMBDA e :
                IF e.continue
                THEN ScanExprSkipLast(current, i + 1, cache \o e.pushed, e.names, TRUE)
                ELSE [cache |-> cache \o e.pushed, names |-> e.names, handled |-> TRUE],
              Expand(current, i, names))

\* convertSingle: the `for` over current.expr from index i on
RECURSIVE ScanExpr(_, _, _, _, _)
ScanExpr(current, i, cache, names, handled) ==
  IF i >= Len(current.expr)
  THEN [cache |-> cache, names |-> names, handled |-> handled]
  ELSE IF ~current.expr[i + 1].isEbnf
  THEN ScanExpr(current, i + 1, cache, names, handled)
  ELSE Strict(LAMBDA e :
                IF e.continue
                THEN ScanExpr(current, i + 1, cache \o e.pushed, e.names, TRUE)
                ELSE [cache |-> cache \o e.pushed, names |-> e.names, handled |-> TRUE],
              Expand(current, i, names))

\* convertSingle: the `while` over the work stack
RECURSIVE ConvertLoop(_, _, _)
ConvertLoop(cache, ret, names) ==
  IF cache = <<>> THEN [ret |-> ret, names |-> names]
  ELSE Strict(LAMBDA s :
                IF s.handled THEN ConvertLoop(s.cache, ret, s.names)
                ELSE ConvertLoop(SubSeq(cache, 1, Len(cache) - 1),
                                 Append(ret, cache[Len(cache)]), names),
              ScanExpr(cache[Len(cache)], 0, SubSeq(cache, 1, Len(cache) - 1),
                       names, FALSE))

convertSingle(prod, names) == ConvertLoop(<<prod>>, <<>>, names)

\* JSON.stringify([bnf.name, bnf.expr])
Sign(prod) == <<prod.name, prod.expr>>

\* convertToBnf: `terminals` receives String(token) of element objects
ObjectString == "[object Object]"
TakenNames(unparsed) ==
  {unparsed[k].name : k \in 1..Len(unparsed)}
  \cup (IF \E k \in 1..Len(unparsed) : \E j \in 1..Len(unparsed[k].expr) : TRUE
        THEN {ObjectString} ELSE {})

\* convertToBnf: the productions of one convertSingle result whose signature
\* the cache does not hold yet, in order
RECURSIVE Uncached(_, _, _)
Uncached(converted, parsedRet, k) ==
  IF k > Len(parsedRet) THEN <<>>
  ELSE (IF /\ \A c \in 1..Len(converted) : Sign(converted[c]) # Sign(parsedRet[k])
           /\ \A e \in 1..(k - 1) : Sign(parsedRet[e]) # Sign(parsedRet[k])
        THEN <<parsedRet[k]>> ELSE <<>>)
       \o Uncached(converted, parsedRet, k + 1)

\* convertToBnf: the production handed to convertSingle for unparsed[i]
WithHandler(u, actionOverride, i) ==
  IF actionOverride # Undefined
  THEN ComplexProduction(u.name, u.expr, actionOverride, <<>>)
  ELSE IF u.action # Undefined \/ u.mods # <<>>
  THEN ComplexProduction(u.name, u.expr, u.action, u.mods)
  ELSE ComplexProduction(u.name, u.expr, i, <<>>)

\* convertToBnf: the `for` over unparsed, with the signature cache; `singles`
\* keeps what convertSingle returned for each production
RECURSIVE ConvertEach(_, _, _, _, _, _)
ConvertEach(unparsed, actionOverride, i, converted, names, singles) ==
  IF i >= Len(unparsed) THEN [converted |-> converted, singles |-> singles]
  ELSE Strict(LAMBDA parsed :
                ConvertEach(unparsed, actionOverride, i + 1,
                            converted \o Uncached(converted, parsed.ret, 1),
                            parsed.names, Append(singles, parsed.ret)),
              convertSingle(WithHandler(unparsed[i + 1], actionOverride, i), names))

ConvertAll(unparsed, actionOverride) ==
  ConvertEach(unparsed, actionOverride, 0, <<>>, TakenNames(unparsed), <<>>)

convertToBnf(unparsed, actionOverride) == ConvertAll(unparsed, actionOverride).converted

-----------------------------------------------------------------------------
(* LRGrammarBuilder (part_010).  A builder is its fields productions,       *)
(* operators, lowestPrecedence and actions; prodCache and oprCache map a    *)
(* signature or a name to the last index holding it and are read off the    *)
(* lists.  An expression is held as the names of its elements (what         *)
(* processProductions and define read from them).  A handler is an integer  *)
(* standing for the user's function.                                        *)

DefaultLowestPrecedence == 65536

Builder(productions, operators, lowestPrecedence, actions) ==
  [productions |-> productions, operators |-> operators,
   lowestPrecedence |-> lowestPrecedence, actions |-> actions]

\* new LRGrammarBuilder()
NewBuilder == Builder(<<>>, <<>>, DefaultLowestPrecedence, <<>>)

\* new LRGrammarBuilder(grammar): from another builder, or from a GrammarDefinition
LRGrammarBuilder(g, isBuilder) ==
  Builder(g.productions, g.operators,
          IF isBuilder THEN g.lowestPrecedence ELSE DefaultLowestPrecedence,
          g.actions)

clone(b) == LRGrammarBuilder(b, TRUE)

\* act(handler): the builder afterwards and the index returned
act(b, handler) ==
  IF handler = Undefined THEN [b |-> b, index |-> Undefined]
  ELSE [b |-> [b EXCEPT !.actions = Append(@, handler)], index |-> Len(b.actions)]

\* this.prodCache.get(sign), 0 when the cache does not have it (1-based otherwise)
prodCache(b, sign) ==
  LET at == {k \in 1..Len(b.productions) : Sign(b.productions[k]) = sign}
  IN IF at = {} THEN 0 ELSE CHOOSE k \in at : \A j \in at : j <= k

\* this.oprCache.get(name), 0 when the cache does not have it
oprCache(b, name) ==
  LET at == {k \in 1..Len(b.operators) : b.operators[k].name = name}
  IN IF at = {} THEN 0 ELSE CHOOSE k \in at : \A j \in at : j <= k

WithAction(prod, h) == [prod EXCEPT !.action = h.action, !.mods = h.mods]
HandlerRef(leaf, mods) == [action |-> leaf, mods |-> mods]

RECURSIVE bnfInner(_, _, _)
bnfInner(b, prods, handlerIndex) ==
  IF prods = <<>> THEN b
  ELSE LET prod == Head(prods)
           handlerInUse == IF handlerIndex # Undefined THEN HandlerRef(handlerIndex, <<>>)
                           ELSE HandlerRef(prod.action, prod.mods)
           isUndefined == handlerInUse.action = Undefined /\ handlerInUse.mods = <<>>
           at == prodCache(b, Sign(prod))
           productions ==
             IF at # 0 /\ ~isUndefined
             THEN [k \in 1..Len(b.productions) |->
                     IF k = at THEN WithAction(b.productions[k], handlerInUse)
                     ELSE b.productions[k]]
             ELSE Append(b.productions, WithAction(prod, handlerInUse))
       IN bnfInner([b EXCEPT !.productions = productions], Tail(prods), handlerIndex)

bnf(b, prods, handler) ==
  LET added == act(b, handler) IN bnfInner(added.b, prods, added.index)

abnf(b, prods, handler) ==
  LET added == act(b, handler) IN bnfInner(added.b, prods, added.index)

\* the names of a lowered production's elements
Simple(prod) ==
  [name |-> prod.name, expr |-> [k \in 1..Len(prod.expr) |-> prod.expr[k].value],
   action |-> prod.action, mods |-> prod.mods]

RECURSIVE Simples(_)
Simples(prods) ==
  IF prods = <<>> THEN <<>> ELSE <<Simple(Head(prods))>> \o Simples(Tail(prods))

ebnf(b, prods, handler) ==
  bnfInner(act(b, handler).b, Simples(convertToBnf(prods, act(b, handler).index)),
           Undefined)

\* opr(precedence?, association, ...oprs); precedence Undefined when not given
RECURSIVE OprEach(_, _, _, _)
OprEach(b, precedence, assoc, oprs) ==
  IF oprs = <<>> THEN b
  ELSE LET elem == [name |-> Head(oprs), assoc |-> assoc, prior |-> precedence]
           at == oprCache(b, Head(oprs))
           lowest == IF precedence < b.lowestPrecedence THEN precedence
                     ELSE b.lowestPrecedence
           operators ==
             IF at # 0
             THEN [k \in 1..Len(b.operators) |-> IF k = at THEN elem ELSE b.operators[k]]
             ELSE Append(b.operators, elem)
       IN OprEach([b EXCEPT !.lowestPrecedence = lowest, !.operators = operators],
                  precedence, assoc, Tail(oprs))

opr(b, param0, assoc, oprs) ==
  OprEach(b, IF param0 = Undefined THEN b.lowestPrecedence - 1 ELSE param0, assoc, oprs)

\* addFrom(grammar): the loop over the productions of grammar
RECURSIVE AddProductions(_, _, _)
AddProductions(b, productions, actionIndexOffset) ==
  IF productions = <<>> THEN b
  ELSE LET prod == Head(productions)
           newProd == IF prod.action # Undefined /\ prod.mods = <<>>
                      THEN [prod EXCEPT !.action = @ + actionIndexOffset]
                      ELSE prod
       IN AddProductions(bnfInner(b, <<newProd>>, Undefined), Tail(productions),
                         actionIndexOffset)

RECURSIVE AddOperators(_, _)
AddOperators(b, operators) ==
  IF operators = <<>> THEN b
  ELSE AddOperators(opr(b, Head(operators).prior, Head(operators).assoc,
                        <<Head(operators).name>>),
                    Tail(operators))

addFrom(b, g) ==
  LET actionIndexOffset == Len(b.actions)
      pushed == [b EXCEPT !.actions = @ \o g.actions]
  IN AddOperators(AddProductions(pushed, g.productions, actionIndexOffset), g.operators)

\* define(options) without options.tokens: every name that heads no production
DefineTokens(b) ==
  UNION {{b.productions[k].expr[j] : j \in 1..Len(b.productions[k].expr)} :
           k \in 1..Len(b.productions)}
  \ {b.productions[k].name : k \in 1..Len(b.productions)}

defineGrammar(b, mode) ==
  [tokens |-> DefineTokens(b), productions |-> b.productions, actions |-> b.actions,
   operators |-> b.operators, startSymbol |-> "", eofToken |-> "", mode |-> mode,
   conflictPolicy |-> [shiftReduce |-> ""]]

\* the handler a production is bound to: the function at the leaf of its
\* handler reference (Undefined: identity) and the adapter layers around it
Binding(g, k) == [fn |-> GenActions(g)[k], mods |-> g.productions[k].mods]

\* serialize(): handlers become their source text, which stands for the same function
serializeBuilder(b) ==
  [productions |-> b.productions, operators |-> b.operators,
   lowestPrecedence |-> b.lowestPrecedence, actions |-> b.actions]

\* LRGrammarBuilder.deserialize(serialized)
deserializeBuilder(serialized) ==
  Builder(serialized.productions, serialized.operators, serialized.lowestPrecedence,
          serialized.actions)

-----------------------------------------------------------------------------
(* The lexer driven by a caller *)

MaxStr == 3
MaxCalls == MaxStr + 2

Strings == UNION {[1..n -> Chars] : n \in 0..MaxStr}

RuleLists ==
  { <<T(NoName, "", Plus(" ")), T("a", "", Str(<<"a">>)), T("b", "", Plus("b"))>>,
    <<T("x", "", Star("a")), T("b", "", Str(<<"b">>)), T(NoName, "", Str(<<" ">>))>>,
    <<T("a", "", Plus("a")), T("bb", "", Str(<<"b", "b">>))>>,
    <<T("", "onlyShort", Plus("a")), T("b", "", Str(<<"b">>)),
      T("sp", "", Str(<<" ">>))>> }

Lexers ==
  {define(rs, NoName, NoName, FALSE) : rs \in RuleLists}
  \cup {define(rs, "END", "nil", TRUE) : rs \in RuleLists}

\* one call of nextToken(advance) by the caller
Call(advance) ==
  /\ Len(lexLog) < MaxCalls
  /\ LET r == LexerNextToken(lexer, str, pos, advance)
     IN /\ pos' = r.pos
        /\ lexLog' = Append(lexLog, [advance |-> advance, tok |-> r.tok, err |-> r.err,
                                     from |-> pos, to |-> r.pos])
  /\ UNCHANGED <<lexer, str>>
  /\ UNCHANGED <<genVars, parseVars, buildVars, serialVars, lowerVars>>

LexNext == Call(TRUE)

LexPeek == Call(FALSE)

\* reset(str)
LexReset ==
  /\ \E s \in Strings : str' = s
  /\ pos' = 0
  /\ lexLog' = <<>>
  /\ UNCHANGED lexer
  /\ UNCHANGED <<genVars, parseVars, buildVars, serialVars, lowerVars>>

\* the first reset(str) on a new Lexer
LexAssign == str = NoInput /\ LexReset

NoLexer ==
  /\ lexer = define(<<>>, NoName, NoName, FALSE)
  /\ str = NoInput
  /\ pos = 0
  /\ lexLog = <<>>

-----------------------------------------------------------------------------
(* The builder driven by a caller; build() hands the definition to the      *)
(* LRGenerator constructor                                                  *)

MaxBuilderCalls == 2

\* user handler functions
Handlers == {11, 12}
HandlerArgs == Handlers \cup {Undefined}

Rule(name, expr) == ComplexProduction(name, expr, Undefined, <<>>)
Group(alternatives) == EbnfElement("group", alternatives, Undefined)
RepeatOf(body) == EbnfElement("repeat", <<body>>, Undefined)
OptionalOf(body) == EbnfElement("optional", <<body>>, Undefined)

\* S = A {B}   and   S = C {D}
RepeatAB == Rule("S", <<Sym("A"), RepeatOf(<<Sym("B")>>)>>)
RepeatCD == Rule("S", <<Sym("C"), RepeatOf(<<Sym("D")>>)>>)

\* S = b, S = X (A | B) Y, S = A (B | C | D) E, S = X (A | A) Y, S = (A B | ) Y,
\* S = A [B]
EbnfInputs ==
  {<<Rule("S", <<Sym("b")>>)>>,
   <<Rule("S", <<Sym("X"), Group(<<<<Sym("A")>>, <<Sym("B")>>>>), Sym("Y")>>)>>,
   <<Rule("S", <<Sym("A"), Group(<<<<Sym("B")>>, <<Sym("C")>>, <<Sym("D")>>>>),
                 Sym("E")>>)>>,
   <<Rule("S", <<Sym("X"), Group(<<<<Sym("A")>>, <<Sym("A")>>>>), Sym("Y")>>)>>,
   <<Rule("S", <<Group(<<<<Sym("A"), Sym("B")>>, <<>>>>), Sym("Y")>>)>>,
   <<Rule("S", <<Sym("A"), OptionalOf(<<Sym("B")>>)>>)>>,
   <<RepeatAB>>}

\* X = a;  S = b;  S = X b | b
BnfInputs ==
  {<<Prod("X", <<"a">>, Undefined)>>,
   <<Prod("S", <<"b">>, Undefined)>>,
   <<Prod("S", <<"X", "b">>, Undefined), Prod("S", <<"b">>, Undefined)>>}

OprNames == {<<"plus">>, <<"lt">>}
Precedences == {Undefined, 5}

\* builders handed to addFrom: T = c with a handler; T = C {D} with a handler;
\* two operators declared without precedence
DonorBuilders ==
  {bnf(NewBuilder, <<Prod("T", <<"c">>, Undefined)>>, 21),
   ebnf(NewBuilder, <<Rule("T", <<Sym("C"), RepeatOf(<<Sym("D")>>)>>)>>, 22),
   opr(opr(NewBuilder, Undefined, "left", <<"times">>), Undefined, "left", <<"plus">>)}

\* GrammarDefinitions handed to addFrom and to the constructor
DonorDefinitions ==
  {ExprGrammar(<<Opr("plus", "left", 1)>>, "", ""),
   Expr2Grammar(<<Opr("plus", "left", 3), Opr("lt", "nonassoc", 2)>>, "", "")}

\* the fields addFrom and the constructor read from their argument
Source(g) == [productions |-> g.productions, operators |-> g.operators,
              actions |-> g.actions]
NoSource == [productions |-> <<>>, operators |-> <<>>, actions |-> <<>>]
NoLowering == [converted |-> <<>>, singles |-> <<>>]

CallRecord(op, prods, handler, param0, oprs, donor, lowering) ==
  [op |-> op, before |-> builder, prods |-> prods, handler |-> handler,
   param0 |-> param0, oprs |-> oprs, donor |-> donor, lowering |-> lowering,
   given |-> IF op = "ebnf" THEN lastCall.given \o prods ELSE lastCall.given]
NoCall ==
  [op |-> "", before |-> NewBuilder, prods |-> <<>>, handler |-> Undefined,
   param0 |-> Undefined, oprs |-> <<>>, donor |-> NoSource, lowering |-> NoLowering,
   given |-> <<>>]

Called(b, record) ==
  /\ gpc = "builder" /\ ncalls < MaxBuilderCalls
  /\ builder' = b
  /\ lastCall' = record
  /\ ncalls' = ncalls + 1
  /\ UNCHANGED <<genVars, parseVars, lexVars, serialVars, lowerVars>>

BnfCall ==
  \E prods \in BnfInputs, handler \in HandlerArgs :
    Called(bnf(builder, prods, handler),
           CallRecord("bnf", prods, handler, Undefined, <<>>, NoSource, NoLowering))

AbnfCall ==
  \E prods \in BnfInputs, handler \in HandlerArgs :
    Called(abnf(builder, prods, handler),
           CallRecord("abnf", prods, handler, Undefined, <<>>, NoSource, NoLowering))

EbnfCall ==
  \E prods \in EbnfInputs, handler \in HandlerArgs :
    Called(ebnf(builder, prods, handler),
           CallRecord("ebnf", prods, handler, Undefined, <<>>, NoSource,
                      ConvertAll(prods, act(builder, handler).index)))

OprCall ==
  \E param0 \in Precedences, assoc \in {"left", "nonassoc"}, oprs \in OprNames :
    Called(opr(builder, param0, assoc, oprs),
           CallRecord("opr", <<>>, Undefined, param0, oprs, NoSource, NoLowering))

AddFromBuilder ==
  \E g \in DonorBuilders :
    Called(addFrom(builder, g),
           CallRecord("addFrom", <<>>, Undefined, Undefined, <<>>, Source(g), NoLowering))

AddFromDefinition ==
  \E g \in DonorDefinitions :
    Called(addFrom(builder, g),
           CallRecord("addFrom", <<>>, Undefined, Undefined, <<>>, Source(g), NoLowering))

\* the caller goes on with builder.clone()
CloneCall ==
  Called(clone(builder),
         CallRecord("clone", <<>>, Undefined, Undefined, <<>>, Source(builder),
                    NoLowering))

\* the caller goes on with new LRGrammarBuilder(definition)
CopyDefinition ==
  \E g \in DonorDefinitions :
    Called(LRGrammarBuilder(g, FALSE),
           CallRecord("new", <<>>, Undefined, Undefined, <<>>, Source(g), NoLowering))

\* the caller goes on with LRGrammarBuilder.deserialize(builder.serialize())
DeserializeCall ==
  Called(deserializeBuilder(serializeBuilder(builder)),
         CallRecord("deserialize", <<>>, Undefined, Undefined, <<>>, Source(builder),
                    NoLowering))

BuilderNext ==
  \/ BnfCall \/ AbnfCall \/ EbnfCall \/ OprCall \/ AddFromBuilder \/ AddFromDefinition
  \/ CloneCall \/ CopyDefinition \/ DeserializeCall

\* grammarBuilder.ebnf(rule, h) as the pipeline tests call it (part_009)
PlainAB == Rule("S", <<Sym("A"), Sym("B")>>)
PipelineRules == {<<RepeatAB>>, <<RepeatCD>>, <<PlainAB>>}
PipelineHandler == 11

EbnfRule ==
  \E prods \in PipelineRules :
    Called(ebnf(builder, prods, PipelineHandler),
           CallRecord("ebnf", prods, PipelineHandler, Undefined, <<>>, NoSource,
                      ConvertAll(prods, act(builder, PipelineHandler).index)))

\* build(): define() and new LRGenerator(def); the constructor runs next
BuildCall ==
  /\ gpc = "builder" /\ builder.productions # <<>>
  /\ grammar' = defineGrammar(builder, "")
  /\ gpc' = "new"
  /\ UNCHANGED <<ctor, attempt, auto, errors, states, gi, gk, genAction, genGoto,
                 action, goto, statesTable, builtBy, cellLog>>
  /\ UNCHANGED <<parseVars, lexVars, buildVars, serialVars, lowerVars>>

\* new Parser(parsedGrammar).parse(stream) on a token array
ParseBuilt ==
  /\ gpc = "built" /\ ppc = "idle" /\ scope = "closure"
  /\ \E names \in TokenArrays(grammar) :
       /\ input' = [tokens |-> Tokenized(names), ctx |-> NoReceiver]
       /\ ParserBecomes(parseEntry(Parser, Tokenized(names), NoReceiver))
  /\ nparse' = nparse + 1
  /\ UNCHANGED earlier
  /\ UNCHANGED <<genVars, lexVars, buildVars, serialVars, lowerVars>>

\* serializeFunction / deserializeFunction (part_003): a function becomes its
\* source text, and the text a function again
serializeFunction(fn) == [source |-> fn]
deserializeFunction(serialized) == serialized.source

\* Parser.serialize(): the tables as they are, the symbols as {name, isNT},
\* every handler as its source text
serializeParser ==
  [action |-> action, goto |-> goto,
   symbols |-> [k \in 1..Len(Symbols(grammar)) |->
                  [name |-> Symbols(grammar)[k],
                   isNT |-> isNonTerminal(grammar, Symbols(grammar)[k])]],
   actions |-> [k \in 1..Len(grammar.productions) |->
                  serializeFunction(Binding(grammar, k))]]

\* the caller goes on with Parser.deserialize(parser.serialize()): a new
\* Parser on the same tables whose handlers were rebuilt from their texts
DeserializeParser ==
  /\ gpc = "built" /\ ppc \in {"returned", "threw"} /\ scope = "closure"
  /\ action' = serializeParser.action
  /\ goto' = serializeParser.goto
  /\ scope' = "global"
  /\ original' = [action |-> action, goto |-> goto,
                  symbols |-> Symbols(grammar),
                  actions |-> [k \in 1..Len(grammar.productions) |->
                                 Binding(grammar, k)],
                  restored |-> serializeParser,
                  input |-> input, outcome |-> Outcome(Parser)]
  /\ ParserBecomes(NewParser)
  /\ nparse' = 0
  /\ earlier' = {}
  /\ UNCHANGED input
  /\ UNCHANGED <<grammar, ctor, gpc, attempt, auto, errors, states, gi, gk, genAction,
                 genGoto, statesTable, builtBy, cellLog>>
  /\ UNCHANGED <<lexVars, buildVars, lowerVars>>

\* the restored Parser parses what the original parsed
ParseRestored ==
  /\ gpc = "built" /\ ppc = "idle" /\ scope = "global"
  /\ ParserBecomes(parseEntry(Parser, original.input.tokens, original.input.ctx))
  /\ nparse' = nparse + 1
  /\ UNCHANGED <<input, earlier>>
  /\ UNCHANGED <<genVars, lexVars, buildVars, serialVars, lowerVars>>

NoOriginal ==
  [action |-> EmptyMap, goto |-> EmptyMap, symbols |-> <<>>, actions |-> <<>>,
   restored |-> [action |-> EmptyMap, goto |-> EmptyMap, symbols |-> <<>>,
                 actions |-> <<>>],
   input |-> [tokens |-> <<>>, ctx |-> 0], outcome |-> Outcome(NewParser)]

NoSerial ==
  /\ scope = "closure"
  /\ original = NoOriginal

SerializeNext == DeserializeParser \/ ParseRestored

\* the grammars of PipelineRules raise no conflict and hold no operator, so
\* the constructor never falls back and no cell holds an error record
PipelineNext ==
  \/ EbnfRule \/ BuildCall
  \/ Construct \/ BeginState \/ ReduceItem \/ AcceptItem \/ AdvanceItem
  \/ EndState \/ Finish
  \/ ParseBuilt \/ ShiftStep \/ ReduceStep \/ AcceptStep \/ MissingStep \/ ReturnStep

NoBuilder ==
  /\ builder = NewBuilder
  /\ lastCall = NoCall
  /\ ncalls = 0

-----------------------------------------------------------------------------
(* convertToBnf run statement by statement (ebnf.ts): `work` holds its      *)
(* locals and those of the convertSingle call under way.                    *)

MaxNesting == 2

\* EBNF elements nested at most d deep around the symbol A
RECURSIVE NestedElements(_)
NestedElements(d) ==
  IF d = 0 THEN {Sym("A")}
  ELSE LET inner == NestedElements(d - 1)
       IN inner
          \cup {EbnfElement("optional", <<<<e>>>>, m) : e \in inner, m \in {Undefined, 0, 2}}
          \cup {EbnfElement("repeat", <<<<e>>>>, Undefined) : e \in inner}
          \cup {EbnfElement("mult", <<<<e>>>>, m) : e \in inner, m \in {Undefined, 2}}
          \cup {EbnfElement("group", <<<<e>>>>, m) : e \in inner, m \in {Undefined, 0, 2}}
          \cup {EbnfElement("group", <<<<e>>, <<Sym("B")>>>>, Undefined) : e \in inner}

\* S = X e Y and S = X e for every such element e;  S = [A]*0 {B};
\* S = A {B} followed by S = C {D}
LowerInputs ==
  {<<Rule("S", <<Sym("X"), e, Sym("Y")>>)>> : e \in NestedElements(MaxNesting)}
  \cup {<<Rule("S", <<Sym("X"), e>>)>> : e \in NestedElements(1)}
  \cup {<<Rule("S", <<EbnfElement("optional", <<<<Sym("A")>>>>, 0),
                      RepeatOf(<<Sym("B")>>)>>)>>,
        <<RepeatAB, RepeatCD>>}

Work(pc, unparsed, i, cache, ret, names, converted) ==
  [pc |-> pc, unparsed |-> unparsed, i |-> i, cache |-> cache, ret |-> ret,
   names |-> names, converted |-> converted]

NoWork == work = Work("idle", <<>>, 0, <<>>, <<>>, {}, <<>>)

\* convertToBnf(unparsed) up to its `for`: the names are collected
EnterConvert(unparsed) ==
  Work("for", unparsed, 0, <<>>, <<>>, TakenNames(unparsed), <<>>)

\* convertToBnf: the head of the `for`, and convertSingle up to its `while`
BeginSingle ==
  /\ work.pc = "for" /\ work.i < Len(work.unparsed)
  /\ work' = [work EXCEPT
                !.pc = "while",
                !.cache = <<WithHandler(work.unparsed[work.i + 1], Undefined, work.i)>>,
                !.ret = <<>>]
  /\ UNCHANGED <<genVars, parseVars, lexVars, buildVars, serialVars>>

\* convertSingle: one round of the `while`: pop `current`, scan it, and
\* either push what the branch of its first EBNF element makes or emit it
WhileRound ==
  /\ work.pc = "while" /\ work.cache # <<>>
  /\ work' = Strict(LAMBDA s :
                      IF s.handled
                      THEN [work EXCEPT !.cache = s.cache, !.names = s.names]
                      ELSE [work EXCEPT
                              !.cache = SubSeq(work.cache, 1, Len(work.cache) - 1),
                              !.ret = Append(work.ret, work.cache[Len(work.cache)])],
                    ScanExpr(work.cache[Len(work.cache)], 0,
                             SubSeq(work.cache, 1, Len(work.cache) - 1),
                             work.names, FALSE))
  /\ UNCHANGED <<genVars, parseVars, lexVars, buildVars, serialVars>>

\* convertSingle returns; convertToBnf keeps the productions not cached yet
EndSingle ==
  /\ work.pc = "while" /\ work.cache = <<>>
  /\ work' = [work EXCEPT
                !.pc = "for",
                !.i = work.i + 1,
                !.converted = work.converted \o Uncached(work.converted, work.ret, 1)]
  /\ UNCHANGED <<genVars, parseVars, lexVars, buildVars, serialVars>>

\* convertToBnf returns `converted`
ReturnConverted ==
  /\ work.pc = "for" /\ work.i >= Len(work.unparsed)
  /\ work' = [work EXCEPT !.pc = "done"]
  /\ UNCHANGED <<genVars, parseVars, lexVars, buildVars, serialVars>>

LowerNext == BeginSingle \/ WhileRound \/ EndSingle \/ ReturnConverted

-----------------------------------------------------------------------------
(* Specifications *)

\* the generator constructors, run on every input grammar
InitGen ==
  /\ grammar \in Grammars
  /\ ctor \in Constructors
  /\ GenInit
  /\ NoParser
  /\ NoLexer
  /\ NoBuilder
  /\ NoSerial
  /\ NoWork
SpecGen == InitGen /\ [][GenNext]_vars

\* grammars handed to LRGenerator, and a Parser made from each one built
InitParse ==
  /\ grammar \in ParseGrammars
  /\ ctor = "LRGenerator"
  /\ GenInit
  /\ NoParser
  /\ NoLexer
  /\ NoBuilder
  /\ NoSerial
  /\ NoWork
SpecParse == InitParse /\ [][GenNext \/ ParseNext]_vars

\* the same with grammars that name a mode, need the fallback of computeAuto,
\* hold an empty production, or make the LALR(1) generator merge item sets
\* S -> x A x | y A y ; A -> e   (the item sets reached on e share their
\* LR(0) items and differ in lookaheads)
PairProds == <<Prod("S", <<"x", "A", "x">>, 0), Prod("S", <<"y", "A", "y">>, 0),
               Prod("A", <<"e">>, Undefined)>>
PairGrammar == Definition({"x", "y", "e"}, PairProds, <<>>, "", "")

\* S -> C b ; C -> c | (empty)
LeadProds == <<Prod("S", <<"C", "b">>, 0), Prod("C", <<"c">>, Undefined),
               Prod("C", <<>>, 1)>>
LeadGrammar == Definition({"b", "c"}, LeadProds, <<>>, "", "")

\* every generator class run on the grammars above and on grammars that need
\* the fallback of computeAuto, hold an empty production, or make the LALR(1)
\* generator merge item sets; a Parser made from each one built
ModeBuilds ==
  ((ParseGrammars \cup {LalrGrammar(""), LeadGrammar, PairGrammar}) \X Constructors)
  \cup {<<MergeGrammar("lalr"), "LALRGenerator">>}
InitParseModes ==
  /\ \E b \in ModeBuilds : grammar = b[1] /\ ctor = b[2]
  /\ GenInit
  /\ NoParser
  /\ NoLexer
  /\ NoBuilder
  /\ NoSerial
  /\ NoWork

\* the caller makes one parse call on each Parser
FirstParse == nparse = 0 /\ StartParse
ParseOnce ==
  \/ FirstParse \/ ShiftStep \/ ReduceStep \/ AcceptStep \/ ErrorStep \/ MissingStep
  \/ ReturnStep
SpecParseModes == InitParseModes /\ [][GenNext \/ ParseOnce]_vars

\* a new Lexer for every rule list; no generator or parser is running
InitLex ==
  /\ lexer \in Lexers
  /\ str = NoInput
  /\ pos = 0
  /\ lexLog = <<>>
  /\ grammar = TermGrammar("")
  /\ ctor = "LRGenerator"
  /\ GenInit
  /\ NoParser
  /\ NoBuilder
  /\ NoSerial
  /\ NoWork

\* a caller that resets, peeks and reads in any order
LexCalls == LexReset \/ LexNext \/ LexPeek
SpecLex == InitLex /\ [][LexCalls]_vars

\* a caller that assigns an input and then repeats nextToken()
LexRun == LexAssign \/ LexNext
SpecLexRun == InitLex /\ [][LexRun]_vars /\ WF_vars(LexRun)

\* a new LRGrammarBuilder and a caller making any calls on it
InitBuilder ==
  /\ NoBuilder
  /\ NoSerial
  /\ NoWork
  /\ grammar = TermGrammar("")
  /\ ctor = "LRGenerator"
  /\ gpc = "builder" /\ GenFresh
  /\ NoParser
  /\ NoLexer
SpecBuilder == InitBuilder /\ [][BuilderNext]_vars

\* a builder fed by ebnf() calls, built, and the parser run on token arrays
SpecPipeline == InitBuilder /\ [][PipelineNext]_vars

\* the same, the parser then serialized, deserialized and run again
SpecSerialize == InitBuilder /\ [][PipelineNext \/ SerializeNext]_vars

\* convertToBnf called on every input list; the call runs on its own thread
\* of control until it returns, so a round that can be taken is taken
InitLower ==
  /\ work \in {EnterConvert(u) : u \in LowerInputs}
  /\ NoBuilder
  /\ NoSerial
  /\ grammar = TermGrammar("")
  /\ ctor = "LRGenerator"
  /\ gpc = "builder" /\ GenFresh
  /\ NoParser
  /\ NoLexer
SpecLower == InitLower /\ [][LowerNext]_vars /\ WF_vars(LowerNext)
-----------------------------------------------------------------------------
(* Properties of the parse driver (SpecParse)                               *)

Last(seq) == seq[Len(seq)]

\* the handler invocations of the running call that reduced to the start symbol
StartReductions ==
  {k \in 1..Len(calls) : calls[k].head = StartSymbol(grammar)}

\* C1: whenever parse returns (it reached Accept), the value returned is the
\* value of the top stack frame, and it is the result of the handler invoked
\* by the last reduction to the start symbol.
C1_AcceptReturnsTopValue ==
  ppc = "returned" =>
    /\ accepted
    /\ result = Top(stack).i.value
    /\ StartReductions # {}
    /\ result = calls[CHOOSE k \in StartReductions :
                        \A j \in StartReductions : j <= k].result

\* a parse of at least "num plus num" has returned
C1_Witness == ppc = "returned" /\ Len(calls) >= 3 /\ Len(input.tokens) >= 3

\* the frames a Reduce(head, len, pid) pops, bottom first
PoppedFrames(len) == SubSeq(stack, Len(stack) - len + 1, Len(stack))

\* C2: a Reduce(head, len, pid) step adds exactly one handler invocation, of the
\* handler of production pid (identity if it has none), whose arguments are the
\* values of the len popped frames in the order they were pushed and whose
\* receiver is the context the caller passed to parse.
C2_ReduceInvokesHandlerOnce ==
  [][(ppc = "run" /\ ~accepted /\ ~inError /\ Lookup(Parser).t = "reduce") =>
       LET rec == Lookup(Parser)
           args == [k \in 1..rec.a[2] |-> PoppedFrames(rec.a[2])[k].i.value]
       IN /\ Len(calls') = Len(calls) + 1
          /\ SubSeq(calls', 1, Len(calls)) = calls
          /\ Last(calls').pid = rec.a[3]
          /\ Last(calls').args = args
          /\ Last(calls').ctx = input.ctx
          /\ Last(calls').result =
               Apply(GenActions(grammar)[rec.a[3] + 1], input.ctx, args)
          /\ Last(stack').i.value = Last(calls').result]_vars

\* a reduction by E -> E plus E has called its handler with three arguments
C2_Witness ==
  /\ calls # <<>>
  /\ Len(Last(calls).args) = 3
  /\ Last(calls).result.k = "apply"

FailingLookup ==
  ppc = "run" /\ ~accepted /\ ~inError /\ Lookup(Parser).t \in {"none", "error"}

\* C3: when the ACTION cell for (state of the top frame, lookahead) is missing
\* or holds an Error action, parse throws and returns no value, and the stack,
\* the stream, the lookahead and the handler invocations stay as they were at
\* the failing lookup for the rest of the call.
C3_FailingLookupIsFatal ==
  [][/\ FailingLookup =>
          /\ ppc' = "threw" /\ raised' # NoError /\ result' = NoValue
          /\ UNCHANGED <<stack, stream, a, calls, trace>>
     /\ (ppc = "threw" /\ nparse' = nparse) =>
          UNCHANGED <<stack, stream, a, calls, trace, result, ppc>>]_vars

\* a parse has thrown on the Error action of a non-associative operator
C3_Witness == ppc = "threw" /\ raised.kind = "message" /\ Len(calls) >= 2

\* C4: whatever parse calls were made before on the same Parser, a call that
\* has ended ended as the same call on a freshly constructed Parser ends:
\* same returned value, or same error.
C4_ParseIsRestartable ==
  (gpc = "built" /\ ppc \in {"returned", "threw"}) =>
    Outcome(Parser) = Outcome(parse(NewParser, input.tokens, input.ctx))

\* a second call has returned after a first call that threw
C4_Witness ==
  /\ nparse = 2 /\ earlier = {"threw"} /\ ppc = "returned" /\ Len(calls) >= 3
-----------------------------------------------------------------------------
(* Properties of table generation (SpecGen).  cellLog holds, for the        *)
(* attempt that is running or has ended, every action generated for a cell  *)
(* that already held one: cur the action held, new the action generated,    *)
(* res what the cell holds afterwards (or the conflict error thrown).       *)

Entries == {cellLog[k] : k \in 1..Len(cellLog)}

Different(e) == e.cur # e.new

\* C5 (as stated): whenever two different actions are generated for one cell,
\* generation fails with a conflict error or conflict resolution leaves one
\* of the two in the cell; no action is replaced without conflict resolution.
C5_OneOfTheTwoOrFailure ==
  \A e \in Entries :
    Different(e) =>
      /\ e.via = "resolve"
      /\ e.res.t = "throw" \/ e.res = e.cur \/ e.res = e.new

ShiftOf(e) == IF e.cur.t = "reduce" THEN e.new ELSE e.cur
ReduceOfPair(e) == IF e.cur.t = "reduce" THEN e.cur ELSE e.new
LookaheadOf(e) == Symbols(grammar)[e.an + 1]
OperatorOfPair(e) ==
  defaultOperatorHandler(grammar, ProdOf(grammar, ReduceOfPair(e).a[3]))

\* a shift/reduce pair whose lookahead and whose production's operator are
\* both in the operator table
OperatorConflict(e) ==
  /\ e.via = "resolve"
  /\ {e.cur.t, e.new.t} = {"shift", "reduce"}
  /\ HasOperator(grammar, LookaheadOf(e))
  /\ OperatorOfPair(e) # NoOperator

NonAssociativeTie(e) ==
  /\ OperatorConflict(e)
  /\ OperatorOf(grammar, LookaheadOf(e)).prior = OperatorOfPair(e).prior
  /\ OperatorOfPair(e).assoc = "nonassoc"

\* the direct write at position k of the log is followed by the same reduce
\* going through conflict resolution on the same cell
RaisedAgain(k) ==
  \E j \in (k + 1)..Len(cellLog) :
    /\ cellLog[j].via = "resolve"
    /\ cellLog[j].st = cellLog[k].st /\ cellLog[j].an = cellLog[k].an
    /\ cellLog[j].new = cellLog[k].cur

\* C5 (amended): an action generated through tryAddAction for a cell that holds
\* a different action either fails generation, or leaves one of the two in the
\* cell, or (non-associative operator, equal precedence, no shiftReduce policy)
\* leaves an Error action.  Only the accept action is written without conflict
\* resolution, to the EOF cell; what it replaces is a reduce that LALR
\* mergeStates put there, and once the state has been processed that reduce
\* has been generated again and has met the accept in conflict resolution.
C5_ResolvedOrAcceptWrittenDirectly ==
  \A k \in 1..Len(cellLog) :
    LET e == cellLog[k]
    IN /\ e.via = "resolve" =>
            \/ e.res.t = "throw" \/ e.res = e.cur \/ e.res = e.new
            \/ /\ e.res = ErrorAction
               /\ NonAssociativeTie(e)
               /\ grammar.conflictPolicy.shiftReduce = ""
       /\ e.via # "resolve" =>
            /\ e.new = Accept /\ e.res = Accept /\ e.an = EOF_INDEX
            /\ e.cur.t = "reduce"
            /\ attempt = "lalr"
            /\ gi > e.st => RaisedAgain(k)

\* an LALR build has ended in which the accept replaced a merged reduce
C5_Witness ==
  /\ gpc = "built" /\ builtBy = "lalr"
  /\ \E e \in Entries : e.via = "direct"
  /\ \E e \in Entries : e.via = "resolve" /\ Different(e) /\ e.res = Accept

\* C6: in a shift/reduce conflict whose lookahead a and whose production's
\* operator op are both operators, the cell gets the shift if a has the higher
\* precedence, the reduce if op has, and on a tie the reduce for a
\* left-associative op, the shift for a right-associative op, an Error action
\* for a non-associative op.
C6_PrecedenceAndAssociativity ==
  \A e \in Entries :
    OperatorConflict(e) =>
      LET aPrior == OperatorOf(grammar, LookaheadOf(e)).prior
          op == OperatorOfPair(e)
      IN e.res = CASE aPrior > op.prior -> ShiftOf(e)
                   [] aPrior < op.prior -> ReduceOfPair(e)
                   [] op.assoc = "left" -> ReduceOfPair(e)
                   [] op.assoc = "right" -> ShiftOf(e)
                   [] OTHER -> ErrorAction

IsExpr(oprs) ==
  /\ grammar.productions = ExprProds
  /\ grammar.operators = oprs
  /\ grammar.conflictPolicy.shiftReduce = ""

\* C7: generating tables for E -> E plus E | num without operators never
\* yields tables, and every attempt that fails fails on a shift/reduce
\* conflict on lookahead plus; with plus declared left-associative no attempt
\* fails.
C7_ExprNeedsOperator ==
  /\ IsExpr(<<>>) =>
       /\ gpc # "built"
       /\ ~(gpc = "loop" /\ gi >= Len(states))
       /\ gpc = "thrown" =>
            /\ Last(cellLog).res = Throw(ShiftReduceConflict)
            /\ {Last(cellLog).cur.t, Last(cellLog).new.t} = {"shift", "reduce"}
            /\ LookaheadOf(Last(cellLog)) = "plus"
  /\ IsExpr(<<Opr("plus", "left", 1)>>) => gpc \notin {"thrown", "failed"}

\* the build of the grammar without operators has failed in all three modes
C7_Witness ==
  /\ IsExpr(<<>>) /\ ctor = "LRGenerator" /\ grammar.mode = ""
  /\ gpc = "failed" /\ errors = <<"slr", "lalr", "lr1">>

\* C8: when the grammar definition requests a mode, LRGenerator builds the
\* tables by exactly that algorithm and a conflict in that mode fails the
\* build; attempts are chained only when no mode is requested.
C8_RequestedModeIsUsed ==
  (ctor = "LRGenerator" /\ gpc # "new") =>
    IF grammar.mode = "" THEN auto
    ELSE /\ ~auto
         /\ attempt = grammar.mode
         /\ gpc = "built" => builtBy = grammar.mode
-----------------------------------------------------------------------------
(* Properties of the lexer (SpecLexRun: repeated nextToken(); SpecLex: any  *)
(* calls).  lexLog holds the calls made since the input was assigned.       *)

Assigned == str # NoInput

\* the lexeme lengths of the records that match at position p, in rule order
Matching(p) ==
  {k \in 1..Len(lexer.records) : Match(lexer.records[k].pat, str, p) >= 0}
NonEmptyAt(k, p) == Match(lexer.records[k].pat, str, p) > 0

\* each position before the end is matched by some rule with a non-empty lexeme
SomeRuleMatchesNonEmpty ==
  \A p \in 0..(Len(str) - 1) : \E k \in Matching(p) : NonEmptyAt(k, p)

\* at each position before the end the first rule that matches has a
\* non-empty lexeme
FirstMatchIsNonEmpty ==
  \A p \in 0..(Len(str) - 1) :
    \E k \in Matching(p) : NonEmptyAt(k, p) /\ \A j \in Matching(p) : k <= j

\* the configured EOF token: options.eofName (or the default name), and
\* options.eofValue (or options.eofName when no value is configured)
IsConfiguredEof(tok) ==
  /\ tok.name = IF lexer.eofName = NoName THEN DEFAULT_EOF_TOKEN ELSE lexer.eofName
  /\ tok.value = <<lexer.eofValue>>

\* the last call returned the EOF token and left the position at the end
AtEof ==
  /\ Len(lexLog) > 0
  /\ Last(lexLog).err = "" /\ IsConfiguredEof(Last(lexLog).tok)
  /\ Last(lexLog).to = Last(lexLog).from
  /\ pos = Len(str)

\* C9 (as stated): when each position before the end of the input is matched
\* by some rule with a non-empty lexeme, repeated nextToken() calls return the
\* EOF token after finitely many calls, and from then on every call returns
\* the EOF token and leaves the position unchanged.
C9_SomeMatchReachesEof ==
  /\ (Assigned /\ SomeRuleMatchesNonEmpty) ~> AtEof
  /\ [](AtEof => []AtEof)

\* C9 (amended): when at each position before the end of the input the first
\* rule that matches has a non-empty lexeme, repeated nextToken() calls return
\* the EOF token after finitely many calls, and from then on every call
\* returns the EOF token (configured name and sentinel value) and leaves the
\* position unchanged.
C9_FirstMatchReachesEof ==
  /\ (Assigned /\ FirstMatchIsNonEmpty) ~> AtEof
  /\ [](AtEof => []AtEof)

\* EOF was returned twice after a token and a discarded match
C9_Witness ==
  /\ Assigned /\ FirstMatchIsNonEmpty /\ AtEof
  /\ Len(str) = MaxStr
  /\ Len(lexLog) >= 3
  /\ ~IsConfiguredEof(lexLog[1].tok)
  /\ IsConfiguredEof(lexLog[Len(lexLog) - 1].tok)
  /\ \E p \in 0..(Len(str) - 1) : \E k \in Matching(p) :
       /\ \A j \in Matching(p) : k <= j
       /\ lexer.records[k].n = "ignoreName"

\* C10: nextToken(false) returns what an immediately following nextToken(true)
\* returns and leaves the position where it was before the call.
C10_PeekReportsNextWithoutMoving ==
  \A k \in 1..Len(lexLog) :
    ~lexLog[k].advance =>
      /\ lexLog[k].to = lexLog[k].from
      /\ (k < Len(lexLog) /\ lexLog[k + 1].advance) =>
           /\ lexLog[k + 1].tok = lexLog[k].tok
           /\ lexLog[k + 1].err = lexLog[k].err

\* the first rule that matches at position p matches the empty lexeme
FirstMatchIsEmptyAt(p) ==
  /\ p < Len(str)
  /\ \E k \in Matching(p) : ~NonEmptyAt(k, p) /\ \A j \in Matching(p) : k <= j

\* C11: a nextToken call made where the first rule that matches matches an
\* empty lexeme raises the zero-length error and returns no token, with
\* advance=true and with advance=false.
C11_ZeroLengthIsFatal ==
  \A k \in 1..Len(lexLog) :
    (Assigned /\ FirstMatchIsEmptyAt(lexLog[k].from)) =>
      /\ lexLog[k].err = "Zero-length token"
      /\ lexLog[k].tok = NoLexToken
-----------------------------------------------------------------------------
(* Further properties of the parse driver (SpecParse)                       *)

\* the value computed by the last reduction to the start symbol
StartValue ==
  calls[CHOOSE k \in StartReductions : \A j \in StartReductions : j <= k].result

\* C16 (as stated): at the moment a parse accepts, the stack holds exactly one
\* frame, whose value is the start symbol's computed value.
C16_OneFrameAtAccept ==
  accepted =>
    /\ Len(stack) = 1
    /\ StartReductions # {}
    /\ stack[1].i.value = StartValue

\* C16 (amended): at the moment a parse accepts, the stack holds exactly two
\* frames: the seed frame (start state, first token read) at the bottom, and
\* on top of it the frame of the start symbol, whose value is the start
\* symbol's computed value.
C16_SeedAndStartFrameAtAccept ==
  accepted =>
    /\ Len(stack) = 2
    /\ stack[1].s = 0
    /\ stack[1].i = IF Len(input.tokens) = 0 THEN EOF ELSE input.tokens[1]
    /\ stack[2].i.name = StartSymbol(grammar)
    /\ StartReductions # {}
    /\ stack[2].i.value = StartValue

\* a parse of at least three tokens has accepted
C16_Witness == accepted /\ Len(input.tokens) >= 3 /\ Len(stack) = 2
-----------------------------------------------------------------------------
(* Further properties of table generation (SpecGen)                         *)

\* beta derives the empty string: every symbol of it has eps in its FIRST set
Nullable(beta) == \A i \in 1..Len(beta) : Contains(First(grammar)[beta[i]], eps)

\* the terminals of FIRST(beta): those of FIRST(beta[i]) for every i that only
\* nullable symbols precede
FirstTerminals(beta) ==
  {x \in Tokens(grammar) :
     \E i \in 1..Len(beta) :
       /\ Contains(First(grammar)[beta[i]], x)
       /\ Nullable(SubSeq(beta, 1, i - 1))}

Elements(seq) == {seq[k] : k \in 1..Len(seq)}

\* C20: once the generator has computed FIRST and FOLLOW, for every production
\* A -> alpha B beta with B a non-terminal, FOLLOW(B) contains every terminal
\* of FIRST(beta), and contains FOLLOW(A) whenever beta derives the empty
\* string.
C20_FollowIsClosed ==
  gpc # "new" =>
    \A k \in 1..Len(grammar.productions) :
      LET p == Productions(grammar)[k]
      IN \A i \in 1..Len(p.body) :
           isNonTerminal(grammar, p.body[i]) =>
             LET beta == SubSeq(p.body, i + 1, Len(p.body))
                 followB == Elements(Follow(grammar)[p.body[i]])
             IN /\ FirstTerminals(beta) \subseteq followB
                /\ Nullable(beta) =>
                     Elements(Follow(grammar)[p.head]) \subseteq followB
-----------------------------------------------------------------------------
(* Properties of the grammar builder and of the EBNF lowering (SpecBuilder). *)
(* lastCall holds the last call made on the builder: the builder before it, *)
(* its arguments and, for ebnf, what convertSingle and convertToBnf         *)
(* returned.                                                                *)

\* the unparsed productions of the last ebnf call whose only EBNF element is
\* a group without multiplicity
GroupAt(prod) == {i \in 1..Len(prod.expr) : prod.expr[i].isEbnf}
IsGroupRule(prod) ==
  /\ Cardinality(GroupAt(prod)) = 1
  /\ \A i \in GroupAt(prod) :
       /\ prod.expr[i].type = "group" /\ prod.expr[i].mult = Undefined
       /\ \A alt \in 1..Len(prod.expr[i].productionList) :
            \A e \in 1..Len(prod.expr[i].productionList[alt]) :
              ~prod.expr[i].productionList[alt][e].isEbnf
GroupRules == {k \in 1..Len(lastCall.prods) : IsGroupRule(lastCall.prods[k])}

\* head -> before alternative after, for every alternative of the group
ExpectedOfGroup(prod) ==
  LET i == CHOOSE i \in GroupAt(prod) : TRUE
      alternatives == prod.expr[i].productionList
  IN [j \in 1..Len(alternatives) |->
        SubSeq(prod.expr, 1, i - 1) \o alternatives[j]
        \o SubSeq(prod.expr, i + 1, Len(prod.expr))]

Occurrences(seq, x) == Cardinality({i \in 1..Len(seq) : seq[i] = x})
Exprs(prods) == [k \in 1..Len(prods) |-> prods[k].expr]

Added ==
  IF lastCall.op = "ebnf"
  THEN [k \in 1..Len(lastCall.lowering.converted) |->
          Simple(lastCall.lowering.converted[k])]
  ELSE lastCall.prods

BodyValues(prod) == [j \in 1..Len(prod.expr) |-> TokenValue(j)]

\* C15: a production added to the builder without a handler is reduced with
\* the identity handler: reducing it yields what its adapter layers (none for
\* a plain production) make of the list of its body values, whatever handlers
\* the builder holds and whichever of bnf, abnf, ebnf added it.
C15_MissingHandlerIsIdentity ==
  (lastCall.op \in {"bnf", "abnf", "ebnf"} /\ lastCall.handler = Undefined) =>
    \A k \in 1..Len(Added) :
      LET at == prodCache(builder, Sign(Added[k]))
          values == BodyValues(Added[k])
      IN /\ at # 0
         /\ Invoke(builder, at - 1, NoReceiver, values)
              = compileActionRecord(builder.productions[at].mods, Undefined, values)

\* C18: after a.addFrom(b) every production that came from b is bound in a
\* to the handler function it was bound to in b, with the same adapter layers.
C18_AddFromKeepsHandlers ==
  lastCall.op = "addFrom" =>
    \A k \in 1..Len(lastCall.donor.productions) :
      LET at == prodCache(builder, Sign(lastCall.donor.productions[k]))
      IN at # 0 /\ Binding(builder, at) = Binding(lastCall.donor, k)

\* C19: an operator declared with opr() without a precedence gets a
\* precedence strictly lower than that of every operator the builder held
\* when opr() was called.
C19_DefaultPrecedenceIsLowest ==
  (lastCall.op = "opr" /\ lastCall.param0 = Undefined) =>
    \A n \in 1..Len(lastCall.oprs) :
      \A k \in 1..Len(lastCall.before.operators) :
        builder.operators[oprCache(builder, lastCall.oprs[n])].prior
          < lastCall.before.operators[k].prior

-----------------------------------------------------------------------------
(* Properties of parsers built from EBNF rules (SpecPipeline).  The         *)
(* language of the rules is computed from the EBNF expressions themselves;  *)
(* the rules given refer to tokens only.                                    *)

RECURSIVE EndsOfExpr(_, _, _)
RECURSIVE EndsOfElement(_, _, _)
RECURSIVE EndsOfRepeat(_, _, _)

\* the positions where a match of expr that starts at a position of `from`
\* can end in the token names w
EndsOfExpr(expr, w, from) ==
  IF expr = <<>> THEN from
  ELSE EndsOfExpr(Tail(expr), w, EndsOfElement(Head(expr), w, from))

EndsOfElement(e, w, from) ==
  IF ~e.isEbnf
  THEN {i + 1 : i \in {j \in from : j < Len(w) /\ w[j + 1] = e.value}}
  ELSE LET once == UNION {EndsOfExpr(e.productionList[k], w, from) :
                            k \in 1..Len(e.productionList)}
       IN CASE e.type = "group" -> once
            [] e.type = "optional" -> from \cup once
            [] e.type = "repeat" -> EndsOfRepeat(e, w, from)

EndsOfRepeat(e, w, from) ==
  LET more == from \cup UNION {EndsOfExpr(e.productionList[k], w, from) :
                                 k \in 1..Len(e.productionList)}
  IN IF more = from THEN from ELSE EndsOfRepeat(e, w, more)

\* w is a sentence of the start symbol (the head of the first rule)
InLanguage(rules, w) ==
  \E k \in 1..Len(rules) :
    /\ rules[k].name = rules[1].name
    /\ Len(w) \in EndsOfExpr(rules[k].expr, w, {0})

InputNames == [k \in 1..Len(input.tokens) |-> input.tokens[k].name]

\* C12: the parser built from EBNF rules through the lowering accepts exactly
\* the token sequences of the language of the rules (the language of their
\* hand-lowered BNF), however many ebnf() calls gave the rules to the builder.
C12_LoweredParserAcceptsTheLanguage ==
  ppc \in {"returned", "threw"} =>
    ((ppc = "returned") <=> InLanguage(lastCall.given, InputNames))

\* C13: for S = A {B} with handler h, parsing A B B B invokes h with exactly
\* two arguments: the value of A and the list of the three values of B in
\* input order.
C13_RepeatHandlerArguments ==
  (/\ ppc = "returned"
   /\ lastCall.given = <<RepeatAB>>
   /\ InputNames = <<"A", "B", "B", "B">>) =>
    /\ result.k = "apply" /\ result.h = PipelineHandler
    /\ result.args = <<TokenValue(1),
                       List(<<TokenValue(2), TokenValue(3), TokenValue(4)>>)>>

-----------------------------------------------------------------------------
(* Properties of serialization (SpecSerialize).  `original` holds the       *)
(* Parser that was serialized, the input it had parsed and what the caller  *)
(* observed.                                                                *)

\* C17: deserialize(serialize(x)) carries the ACTION/GOTO tables and the
\* symbol table of x, and on the input x parsed it returns what x returned
\* and fails where x failed; the handlers the parsers were built with are
\* pure.
C17_RoundTripBehavesAlike ==
  scope = "global" =>
    /\ action = original.action /\ goto = original.goto
    /\ [k \in 1..Len(original.restored.symbols) |-> original.restored.symbols[k].name]
         = original.symbols
    /\ ppc \in {"returned", "threw"} => Outcome(Parser) = original.outcome

\* the item set computeLR1 computes for the symbol ahead of item k of state i
GotoOfItem(i, k) ==
  gotoLR1(grammar, statesTable[i], symbolAhead(grammar, statesTable[i][k]))

\* conflict resolution has met the action rd on the cell and has not kept it
ResolvedAway(st, n, rd) ==
  \E e \in Entries :
    e.via = "resolve" /\ e.st = st /\ e.an = n /\ rd \in {e.cur, e.new} /\ e.res # rd

\* C21: in LALR mode, for every item set Ij computed as the successor of a
\* state and the state j it was merged into (or became), and every completed
\* item A -> alpha . with lookahead a in Ij, the row of j holds on a the reduce
\* by A -> alpha, unless conflict resolution decided that cell otherwise.
C21_MergedLookaheadsAreUnited ==
  (gpc = "built" /\ builtBy = "lalr") =>
    \A i \in 1..Len(statesTable) : \A k \in 1..Len(statesTable[i]) :
      ~isAtEnd(grammar, statesTable[i][k]) =>
        LET Ij == GotoOfItem(i, k)
            target == findState(grammar, statesTable, Ij, TRUE)
        IN \A m \in 1..Len(Ij) :
             (isAtEnd(grammar, Ij[m]) /\ ProdOf(grammar, Ij[m].p).head # S1(grammar)) =>
               \/ Cell(action, target, symbolsTable(grammar, Ij[m].la))
                    = ReduceOf(grammar, Ij[m].p)
               \/ ResolvedAway(target, symbolsTable(grammar, Ij[m].la),
                               ReduceOf(grammar, Ij[m].p))

\* the LR(0) items of a state: its items without their lookaheads
LR0Items(st) == {<<ProdOf(grammar, st[k].p), st[k].dot>> : k \in 1..Len(st)}

\* C22: in LALR mode the final state list never holds two states with the
\* same set of LR(0) items.
C22_NoTwoStatesShareLR0Items ==
  (gpc = "built" /\ builtBy = "lalr") =>
    \A i \in 1..Len(statesTable) : \A k \in 1..Len(statesTable) :
      LR0Items(statesTable[i]) = LR0Items(statesTable[k]) => i = k

\* the operator of the last terminal of the body that is in the operator table
LastOperator(prod) ==
  LET ks == {k \in 1..Len(prod.body) : HasOperator(grammar, prod.body[k])}
  IN IF ks = {} THEN NoOperator
     ELSE OperatorOf(grammar, prod.body[CHOOSE k \in ks : \A j \in ks : j <= k])

ShiftReducePair(e) ==
  e.via = "resolve" /\ {e.cur.t, e.new.t} = {"shift", "reduce"}

\* C23: in a shift/reduce conflict whose lookahead is an operator, the
\* conflict is settled with the operator of the last terminal of the reduce
\* production's body that is in the operator table: by precedence, and on a
\* tie by left or right associativity.
C23_LastTerminalIsTheOperator ==
  \A e \in Entries :
    (/\ ShiftReducePair(e)
     /\ HasOperator(grammar, LookaheadOf(e))
     /\ LastOperator(ProdOf(grammar, ReduceOfPair(e).a[3])) # NoOperator) =>
      LET aPrior == OperatorOf(grammar, LookaheadOf(e)).prior
          op == LastOperator(ProdOf(grammar, ReduceOfPair(e).a[3]))
      IN CASE aPrior > op.prior -> e.res = ShiftOf(e)
           [] aPrior < op.prior -> e.res = ReduceOfPair(e)
           [] op.assoc = "left" -> e.res = ReduceOfPair(e)
           [] op.assoc = "right" -> e.res = ShiftOf(e)
           [] OTHER -> TRUE

\* C24: a shift/reduce conflict to which no operator applies (the lookahead
\* is not in the operator table, or the reduce production has no operator) is
\* settled by the shiftReduce policy alone: 'shift' keeps the shift, 'reduce'
\* the reduce, and without a policy generation fails with a conflict error.
C24_PolicyDecidesWithoutOperator ==
  \A e \in Entries :
    (/\ ShiftReducePair(e)
     /\ \/ ~HasOperator(grammar, LookaheadOf(e))
        \/ OperatorOfPair(e) = NoOperator) =>
      e.res = CASE grammar.conflictPolicy.shiftReduce = "shift" -> ShiftOf(e)
                [] grammar.conflictPolicy.shiftReduce = "reduce" -> ReduceOfPair(e)
                [] OTHER -> Throw(ShiftReduceConflict)

SameKindPair(e) ==
  e.via = "resolve" /\ e.cur.t = e.new.t /\ e.cur.t \in {"shift", "reduce"}

\* C25: two shifts to different states, or two reduces by different
\* productions, generated for one cell abort table generation with an error,
\* whatever the operators and the shiftReduce policy are; two identical
\* actions leave the cell as it was.
C25_SameKindConflictsAreFatal ==
  \A k \in 1..Len(cellLog) :
    SameKindPair(cellLog[k]) =>
      IF cellLog[k].cur = cellLog[k].new
      THEN cellLog[k].res = cellLog[k].cur
      ELSE /\ cellLog[k].res = Throw(IF cellLog[k].cur.t = "reduce"
                                     THEN ReduceReduceConflict ELSE ShiftShiftConflict)
           /\ k = Len(cellLog)
           /\ gpc \in {"thrown", "failed"}

\* an attempt has been aborted by two reduces meeting on an operator's cell
\* under the policy 'shift', after identical actions had met on another cell
C25_Witness ==
  /\ gpc = "thrown"
  /\ grammar.conflictPolicy.shiftReduce = "shift"
  /\ SameKindPair(Last(cellLog)) /\ Last(cellLog).cur # Last(cellLog).new
  /\ HasOperator(grammar, LookaheadOf(Last(cellLog)))
  /\ \E e \in Entries : SameKindPair(e) /\ e.cur = e.new

\* computeSLR / computeLR1 run to its end on its own: the item loop of state
\* c.i from item c.k on, then the state loop
RECURSIVE RunItems(_, _, _)
RunItems(g, mode, c) ==
  IF c.thrown THEN c
  ELSE IF c.k > Len(c.states[c.i + 1]) THEN [c EXCEPT !.i = @ + 1]
  ELSE RunItems(g, mode,
                CASE ItemKind(g, c) = "reduce" -> ReduceBranch(g, mode, c)
                  [] ItemKind(g, c) = "accept" -> AcceptBranch(c)
                  [] OTHER -> AdvanceBranch(g, mode, c))

RECURSIVE RunStates(_, _, _)
RunStates(g, mode, c) ==
  IF c.thrown \/ c.i >= Len(c.states) THEN c
  ELSE RunStates(g, mode, RunItems(g, mode, EnterState(g, c)))

\* what new SLRGenerator(grammar) / new LALRGenerator(grammar, lalr1) ends with
FreshRun(mode) == RunStates(grammar, mode, Entry(grammar, mode))

AttemptOrder == <<"slr", "lalr", "lr1">>

\* C26: with no mode requested the attempts are SLR, LALR, LR(1) in that
\* order; when tables are emitted, every earlier mode fails on the grammar
\* and the ACTION table, GOTO table and state list are those the emitting
\* mode builds from scratch; when all three fail, the error reports the three
\* modes and no tables exist.
C26_AutoEmitsFirstSuccess ==
  auto =>
    /\ errors = SubSeq(AttemptOrder, 1, Len(errors))
    /\ gpc \in {"loop", "items", "thrown", "built"} =>
         attempt = AttemptOrder[Len(errors) + 1]
    /\ gpc = "built" =>
         /\ builtBy = attempt
         /\ \A k \in 1..Len(errors) : FreshRun(errors[k]).thrown
         /\ ~FreshRun(builtBy).thrown
         /\ action = FreshRun(builtBy).act
         /\ goto = FreshRun(builtBy).gt
         /\ statesTable = FreshRun(builtBy).states
    /\ gpc = "failed" =>
         /\ errors = AttemptOrder
         /\ \A k \in 1..Len(errors) : FreshRun(errors[k]).thrown
         /\ action = EmptyMap /\ goto = EmptyMap /\ statesTable = <<>>

\* LR(1) tables have been emitted after the SLR and the LALR attempt failed
C26_Witness ==
  auto /\ gpc = "built" /\ builtBy = "lr1" /\ errors = <<"slr", "lalr">>

\* the heads the last ebnf call synthesized: heads of lowered productions
\* that are no head of a rule it was given
HelperNames ==
  {lastCall.lowering.converted[k].name : k \in 1..Len(lastCall.lowering.converted)}
  \ {lastCall.prods[k].name : k \in 1..Len(lastCall.prods)}

\* the non-terminals and terminals of the productions a builder holds
NamesOf(b) ==
  {b.productions[k].name : k \in 1..Len(b.productions)}
  \cup UNION {{b.productions[k].expr[e] : e \in 1..Len(b.productions[k].expr)} :
                k \in 1..Len(b.productions)}

\* C27: every helper non-terminal an ebnf call synthesizes for a repeat
\* element differs from every non-terminal and terminal the builder held
\* before the call, helper names of earlier calls included.
C27_HelperNamesAreFresh ==
  lastCall.op = "ebnf" => HelperNames \cap NamesOf(lastCall.before) = {}

\* what a helper non-terminal of a repeat carries when nothing was repeated:
\* the values of the n symbols before the repeat element, and an empty list
HelperValue(n) == List(<<List([j \in 1..n |-> TokenValue(j)]), List(<<>>)>>)

\* the values reduce pops for a lowered production of a rule
SlotValues(rule, prod) ==
  [j \in 1..Len(prod.expr) |->
     IF prod.expr[j].value \in HelperNames
     THEN HelperValue((CHOOSE i \in GroupAt(rule) : \A e \in GroupAt(rule) : i <= e) - 1)
     ELSE TokenValue(j)]

\* C28: for every production the lowering emits under the head of a rule
\* given with a handler, the compiled adapter chain calls that handler with
\* exactly one argument per top-level element of the rule's EBNF body.
C28_OneArgumentPerElement ==
  (lastCall.op = "ebnf" /\ lastCall.handler # Undefined) =>
    \A k \in 1..Len(lastCall.prods) :
      \A j \in 1..Len(lastCall.lowering.singles[k]) :
        LET prod == lastCall.lowering.singles[k][j]
            called == compileActionRecord(prod.mods, lastCall.handler,
                                          SlotValues(lastCall.prods[k], prod))
        IN prod.name = lastCall.prods[k].name =>
             /\ called.k = "apply" /\ called.h = lastCall.handler
             /\ Len(called.args) = Len(lastCall.prods[k].expr)

-----------------------------------------------------------------------------
(* Properties of the lowering run (SpecLower)                               *)

\* a SimpleProduction: no element of the expression is an EbnfElement
IsPlainBnf(prod) == \A k \in 1..Len(prod.expr) : ~prod.expr[k].isEbnf

\* the EBNF elements nested directly inside an element
InnerElements(e) ==
  UNION {{e.productionList[k][n] : n \in 1..Len(e.productionList[k])} :
           k \in 1..Len(e.productionList)}

\* C29: for every list of EBNF productions, however its group, optional,
\* repeat and mult elements are nested, the work stack of the lowering runs
\* empty and convertToBnf returns, and every production it emits is a plain
\* BNF production without any EBNF element
C29_LoweringEndsInPlainBnf ==
  /\ <>(work.pc = "done")
  /\ [](/\ \A k \in 1..Len(work.ret) : IsPlainBnf(work.ret[k])
        /\ \A k \in 1..Len(work.converted) : IsPlainBnf(work.converted[k]))

\* a lowering that returned several productions for a rule holding a repeat
\* nested inside a group
C29_Witness ==
  /\ work.pc = "done"
  /\ Len(work.converted) > 2
  /\ \E k \in 1..Len(work.unparsed[1].expr) :
       LET e == work.unparsed[1].expr[k]
       IN /\ e.isEbnf /\ e.type = "group"
          /\ \E inner \in InnerElements(e) : inner.isEbnf /\ inner.type = "repeat"
-----------------------------------------------------------------------------
(* Properties of parses over the tables of every mode (SpecParseModes)      *)

\* the frame a reduce of `length` symbols exposes (NoFrame if none is left)
Exposed(stk, length) ==
  IF length < Len(stk) THEN stk[Len(stk) - length] ELSE NoFrame

\* this.goto[t.s][head] is defined
GotoDefined(t, head) ==
  /\ t.s \in DOMAIN goto /\ head \in DOMAIN goto[t.s]
  /\ goto[t.s][head] # Undefined

\* C30: during a parse over the tables of a successful build, in any mode,
\* the parser stack is never empty, every frame on it carries a state that
\* has an ACTION row, and a reduce that is about to run leaves a frame
\* exposed whose state has a GOTO entry for the reduced head
C30_StackAndGotoAreDefined ==
  (gpc = "built" /\ ppc = "run") =>
    /\ stack # <<>>
    /\ \A k \in 1..Len(stack) : stack[k].s \in DOMAIN action
    /\ (~accepted /\ ~inError /\ Lookup(Parser).t = "reduce") =>
         /\ Exposed(stack, Lookup(Parser).a[2]) # NoFrame
         /\ GotoDefined(Exposed(stack, Lookup(Parser).a[2]), Lookup(Parser).a[1])

\* a parse over LALR(1) tables made with merged item sets that has reduced
\* and stands before another reduce
C30_Witness ==
  /\ gpc = "built" /\ ppc = "run" /\ builtBy = "lalr"
  /\ grammar = PairGrammar
  /\ \E k \in 1..Len(trace) : trace[k] = "reduce"
  /\ ~accepted /\ ~inError /\ Lookup(Parser).t = "reduce"
  /\ Len(stack) > 2
====
